---- MODULE Spec2Model ----
(***************************************************************************)
(* Model of better-middleware: the session-validation middleware returned  *)
(* by createAuthMiddleware (src/src/index.ts), the SessionCache wrapper    *)
(* around an LRU cache with a time-to-live and the cookie token extractor  *)
(* (utils/cache.ts), and the error classifier createErrorResponse          *)
(* (utils/error.ts).                                                       *)
(*                                                                         *)
(* A request runs as a chain of synchronous segments separated by the      *)
(* three awaits of the middleware: the remote getSession call, the         *)
(* continuation next() and the user error hook onError.  Each segment is   *)
(* one action; segments of different requests interleave freely.           *)
(***************************************************************************)
EXTENDS Integers, Sequences, FiniteSets, TLC

\* ---------------------------------------------------------------- bounds
NumReqs == 2            \* requests handled by the one middleware instance
MaxTime == 2            \* the clock runs from 0 to MaxTime seconds
CacheMax == 1           \* cache.max of the instance under test
CacheTtl == 1           \* cache.ttl (seconds) of the instance under test
LruMax == 2             \* capacity of the SessionCache used on its own
LruTtl == 2             \* its time-to-live, in seconds
LruMaxTime == 3         \* its clock runs from 0 to LruMaxTime seconds
MaxCookies == 3         \* cookies in a composed cookie header

Reqs == 1..NumReqs

\* ------------------------------------------------------- character strings
\* Strings the code inspects character by character are sequences of
\* one-character strings.
S_better_auth == <<"b","e","t","t","e","r","-","a","u","t","h">>
S_session == <<"s","e","s","s","i","o","n">>
S_token == <<"_","t","o","k","e","n">>
S_other == <<"o","t","h","e","r">>

Undefined == "undefined"

\* the three cookie names, in the order the loop tries them
sessionCookieNames ==
  << S_better_auth \o <<".">> \o S_session \o S_token,
     S_session \o S_token,
     S_session >>

\* one character of the regular expression built from a cookie name: "." is
\* the wildcard, every other character of the three names is a literal
PatCharMatches(p, c) == p = "." \/ p = c

\* the pattern `${cookieName}=([^;]+)` matches s starting at position i
PatMatchesAt(s, name, i) ==
  LET pat == name \o <<"=">> IN
    /\ i + Len(pat) <= Len(s)
    /\ \A k \in 1..Len(pat) : PatCharMatches(pat[k], s[i + k - 1])
    /\ s[i + Len(pat)] # ";"

\* the greedy capture ([^;]+) starting at position j of s
RECURSIVE CaptureFrom(_, _)
CaptureFrom(s, j) ==
  IF j > Len(s) \/ s[j] = ";" THEN <<>>
  ELSE <<s[j]>> \o CaptureFrom(s, j + 1)

\* cookieString.match(new RegExp(...))?.[1]: the capture of the leftmost
\* match, or the empty sequence when there is no match
MatchCookie(s, name) ==
  LET starts == {i \in 1..Len(s) : PatMatchesAt(s, name, i)} IN
    IF starts = {} THEN <<>>
    ELSE LET i0 == CHOOSE i \in starts : \A j \in starts : i <= j
         IN CaptureFrom(s, i0 + Len(name) + 1)

RECURSIVE ExtractFrom(_, _)
ExtractFrom(s, n) ==
  IF n > Len(sessionCookieNames) THEN <<>>
  ELSE LET m == MatchCookie(s, sessionCookieNames[n]) IN
         IF m # <<>> THEN m ELSE ExtractFrom(s, n + 1)

\* an extractor that also accepts the cookie named "other"
extractSessionToken_extraName(cookieString) ==
  IF cookieString = <<>> THEN <<>>
  ELSE LET m == ExtractFrom(cookieString, 1) IN
         IF m # <<>> THEN m ELSE MatchCookie(cookieString, S_other)

\* SessionCache.extractSessionToken; the null result is the empty sequence
extractSessionToken(cookieString) ==
  IF cookieString = <<>> THEN <<>> ELSE ExtractFrom(cookieString, 1)

\* ------------------------------------------------------------ the cache
\* the AuthContext a missing value stands for: no user and no session
NoContext == [user |-> Undefined, session |-> Undefined]

\* The LRU cache is a sequence of entries, least recently used first.
\* An entry is [key, value, start]: start is the time its age counts from.

\* a lookup that finds the most recently used entry under every key
IndexOf_newest(c, k) == Len(c)

\* a lookup that ignores the key
IndexOf_any(c, k) == IF Len(c) > 0 THEN 1 ELSE 0

IndexOf(c, k) ==
  IF \E i \in 1..Len(c) : c[i].key = k
  THEN CHOOSE i \in 1..Len(c) : c[i].key = k
  ELSE 0

RemoveAt(c, i) == SubSeq(c, 1, i - 1) \o SubSeq(c, i + 1, Len(c))

\* An entry is stale once its age exceeds the time-to-live (lru-cache with
\* ttl: ttl * 1000 tests "now - start > ttl"); ttl is in seconds, as the
\* constructor takes it.
LruStale(e, t, ttl) == t - e.start > ttl

\* has of a cache built with this ttl: present and not stale; changes nothing
LruHas(c, k, t, ttl) ==
  LET i == IndexOf(c, k) IN i # 0 /\ ~LruStale(c[i], t, ttl)

\* has that makes a live entry the most recently used and restarts its age
\* (updateAgeOnHas)
LruAfterHas_touch(c, k, t, ttl) ==
  LET i == IndexOf(c, k) IN
    IF i # 0 /\ ~LruStale(c[i], t, ttl)
    THEN Append(RemoveAt(c, i), [c[i] EXCEPT !.start = t])
    ELSE c

\* the cache after has: as it was (no updateAgeOnHas is configured, and a
\* stale entry is reported absent without being removed)
LruAfterHas(c, k, t, ttl) == c

\* get that returns a stale entry and leaves it in place
LruGet_allowStale(c, k, t, ttl) ==
  LET i == IndexOf(c, k) IN
    IF i = 0 THEN [value |-> NoContext, cache |-> c]
    ELSE [value |-> c[i].value,
          cache |-> Append(RemoveAt(c, i), [c[i] EXCEPT !.start = t])]

\* get that reads without making the entry the most recently used
LruGet_noTouch(c, k, t, ttl) ==
  LET i == IndexOf(c, k) IN
    IF i = 0 THEN [value |-> NoContext, cache |-> c]
    ELSE IF LruStale(c[i], t, ttl)
    THEN [value |-> NoContext, cache |-> RemoveAt(c, i)]
    ELSE [value |-> c[i].value, cache |-> [c EXCEPT ![i].start = t]]

\* get of a cache built with this ttl: [value, cache after the call]; an
\* undefined result is NoContext.  A stale entry is deleted and reads as
\* undefined (allowStale: false); a live entry becomes the most recently
\* used and its age restarts (updateAgeOnGet: true).
LruGet(c, k, t, ttl) ==
  LET i == IndexOf(c, k) IN
    IF i = 0 THEN [value |-> NoContext, cache |-> c]
    ELSE IF LruStale(c[i], t, ttl)
    THEN [value |-> NoContext, cache |-> RemoveAt(c, i)]
    ELSE [value |-> c[i].value,
          cache |-> Append(RemoveAt(c, i), [c[i] EXCEPT !.start = t])]

\* set that inserts without evicting
LruSet_grow(c, k, v, t, max) ==
  LET i == IndexOf(c, k)
      e == [key |-> k, value |-> v, start |-> t] IN
    IF i # 0 THEN Append(RemoveAt(c, i), e) ELSE Append(c, e)

\* set of a cache built with this capacity: overwrite in place (becoming
\* most recently used, age restarted) or insert, evicting the least recently
\* used entry when full
LruSet(c, k, v, t, max) ==
  LET i == IndexOf(c, k)
      e == [key |-> k, value |-> v, start |-> t] IN
    IF i # 0 THEN Append(RemoveAt(c, i), e)
    ELSE IF Len(c) >= max THEN Append(Tail(c), e)
    ELSE Append(c, e)

\* the same operations on the cache of the middleware instance under test,
\* new SessionCache(CacheMax, CacheTtl)
IsStale(e, t) == LruStale(e, t, CacheTtl)

\* has with its test inverted
CacheHas_inverted(c, k, t) ==
  LET i == IndexOf(c, k) IN i = 0 \/ IsStale(c[i], t)

\* SessionCache.has
CacheHas(c, k, t) == LruHas(c, k, t, CacheTtl)

\* SessionCache.get
CacheGet(c, k, t) == LruGet(c, k, t, CacheTtl)

\* set that drops the new entry instead of evicting when the cache is full
CacheSet_noEvict(c, k, v, t) ==
  LET i == IndexOf(c, k)
      e == [key |-> k, value |-> v, start |-> t] IN
    IF i # 0 THEN Append(RemoveAt(c, i), e)
    ELSE IF Len(c) >= CacheMax THEN c
    ELSE Append(c, e)

\* set that keeps the old entry next to the new one
CacheSet_duplicate(c, k, v, t) ==
  Append(c, [key |-> k, value |-> v, start |-> t])

\* SessionCache.set
CacheSet(c, k, v, t) == LruSet(c, k, v, t, CacheMax)

\* delete that removes the least recently used entry, whatever the key
CacheDelete_head(c, k) == IF Len(c) = 0 THEN c ELSE Tail(c)

\* SessionCache.delete
CacheDelete(c, k) ==
  LET i == IndexOf(c, k) IN IF i = 0 THEN c ELSE RemoveAt(c, i)

\* SessionCache.clear
CacheClear(c) == <<>>

CacheSize(c) == Len(c)

\* ------------------------------------------------------ error classifier
\* An error value is [kind, message, code, status].  A field the value does
\* not carry holds the falsy value of its type ("" or 0), which is what the
\* || and ?: of the classifier test.
MkError(kind, message, code, status) ==
  [kind |-> kind, message |-> message, code |-> code, status |-> status]

ErrorCodes ==
  {"USER_ALREADY_EXISTS", "INVALID_CREDENTIALS", "UNAUTHORIZED",
   "SESSION_EXPIRED", "INVALID_SESSION"}

ERROR_MESSAGES ==
  [c \in ErrorCodes |->
     CASE c = "USER_ALREADY_EXISTS" ->
            [en |-> "User already registered", es |-> "Usuario ya registrado"]
       [] c = "INVALID_CREDENTIALS" ->
            [en |-> "Invalid email or password",
             es |-> "Correo o contrasena invalidos"]
       [] c = "UNAUTHORIZED" ->
            [en |-> "Unauthorized access", es |-> "Acceso no autorizado"]
       [] c = "SESSION_EXPIRED" ->
            [en |-> "Session has expired", es |-> "La sesion ha expirado"]
       [] c = "INVALID_SESSION" ->
            [en |-> "Invalid or missing session",
             es |-> "Sesion invalida o faltante"]]

\* a lookup that always answers in English
getErrorMessage_english(errorCode, lang) ==
  IF errorCode \in ErrorCodes THEN ERROR_MESSAGES[errorCode]["en"]
  ELSE "Unknown error"

\* a lookup that answers an unknown code with the code itself
getErrorMessage_echo(errorCode, lang) ==
  IF errorCode \in ErrorCodes THEN ERROR_MESSAGES[errorCode]["en"]
  ELSE errorCode

\* getErrorMessage(errorCode, lang = "en"): an omitted lang is Undefined
getErrorMessage(errorCode, lang) ==
  LET l == IF lang = Undefined THEN "en" ELSE lang IN
    IF errorCode \in ErrorCodes THEN ERROR_MESSAGES[errorCode][l]
    ELSE "Unknown error"

\* null, undefined and a string have none of the properties the classifier
\* reads; a string error keeps its text in the message field of the value
Primitives == {"null", "undefined", "string"}

\* property access that reads the text of a string as its message
OwnField_text(error, f) ==
  IF error.kind \in {"null", "undefined"}
  THEN (IF f = "status" THEN 0 ELSE "")
  ELSE error[f]

\* (error as BetterAuthError)?.f, the falsy value when there is none
OwnField(error, f) ==
  IF error.kind \in Primitives
  THEN (IF f = "status" THEN 0 ELSE "")
  ELSE error[f]

\* a classifier that prefers the error's own message to the dictionary
createErrorResponse_ownMessage(error) ==
  LET code == IF error.code # "" THEN error.code ELSE "UNAUTHORIZED"
      message == IF error.message # "" THEN error.message
                 ELSE IF error.code # "" THEN getErrorMessage(code, "en")
                 ELSE "Invalid or missing session"
      status == IF error.status # 0 THEN error.status ELSE 401
  IN [kind |-> "response", by |-> "createErrorResponse", status |-> status,
      body |-> [success |-> FALSE, message |-> message, code |-> code]]

\* a classifier whose status is always 401
createErrorResponse_fixedStatus(error) ==
  LET code == IF OwnField(error, "code") # "" THEN OwnField(error, "code") ELSE "UNAUTHORIZED"
      message == IF OwnField(error, "code") # "" THEN getErrorMessage(code, "en")
                 ELSE IF OwnField(error, "message") # "" THEN OwnField(error, "message")
                 ELSE "Invalid or missing session"
  IN [kind |-> "response", by |-> "createErrorResponse", status |-> 401,
      body |-> [success |-> FALSE, message |-> message, code |-> code]]

\* a classifier that takes the status only of an error that carries a code
createErrorResponse_codedStatus(error) ==
  LET code == IF OwnField(error, "code") # "" THEN OwnField(error, "code") ELSE "UNAUTHORIZED"
      message == IF OwnField(error, "code") # "" THEN getErrorMessage(code, "en")
                 ELSE IF OwnField(error, "message") # "" THEN OwnField(error, "message")
                 ELSE "Invalid or missing session"
      status == IF OwnField(error, "code") # "" /\ OwnField(error, "status") # 0 THEN OwnField(error, "status")
                ELSE 401
  IN [kind |-> "response", by |-> "createErrorResponse", status |-> status,
      body |-> [success |-> FALSE, message |-> message, code |-> code]]

\* a classifier whose body reports success
createErrorResponse_success(error) ==
  LET code == IF OwnField(error, "code") # "" THEN OwnField(error, "code") ELSE "UNAUTHORIZED"
      message == IF OwnField(error, "code") # "" THEN getErrorMessage(code, "en")
                 ELSE IF OwnField(error, "message") # "" THEN OwnField(error, "message")
                 ELSE "Invalid or missing session"
      status == IF OwnField(error, "status") # 0 THEN OwnField(error, "status") ELSE 401
  IN [kind |-> "response", by |-> "createErrorResponse", status |-> status,
      body |-> [success |-> TRUE, message |-> message, code |-> code]]

\* the body and status createErrorResponse hands to framework.createResponse;
\* getErrorMessage(code) is called without lang
createErrorResponse(error) ==
  LET code == IF OwnField(error, "code") # "" THEN OwnField(error, "code")
              ELSE "UNAUTHORIZED"
      message == IF OwnField(error, "code") # ""
                 THEN getErrorMessage(code, Undefined)
                 ELSE IF OwnField(error, "message") # ""
                 THEN OwnField(error, "message")
                 ELSE "Invalid or missing session"
      status == IF OwnField(error, "status") # 0 THEN OwnField(error, "status")
                ELSE 401
  IN [kind |-> "response", by |-> "createErrorResponse", status |-> status,
      body |-> [success |-> FALSE, message |-> message, code |-> code]]

\* ------------------------------------------------- inputs of a request
\* the errors the middleware itself throws
NoTokenError == MkError("Error", "No session token found", "", 0)
InvalidResponseError == MkError("Error", "Invalid session response", "", 0)

\* errors of the collaborators
HeadersError == MkError("Error", "getHeaders failed", "", 0)
NetworkError == MkError("Error", "Network error", "", 0)
DownstreamError == MkError("Error", "handler failed", "", 0)
HookError == MkError("Error", "Custom error handler failed", "", 0)
NoError == MkError("none", "", "", 0)

\* error objects the remote authenticator answers with
RemoteErrors ==
  { MkError("object", "Session expired upstream", "SESSION_EXPIRED", 401),
    MkError("object", "Forbidden", "", 403),
    MkError("object", "Complex error", "INVALID_CREDENTIALS", 422) }

\* the resolved contexts the remote authenticator can answer with
AuthContexts == { [user |-> "u1", session |-> "s1"],
                  [user |-> "u2", session |-> "s2"] }
\* data in which the session or the user is missing
PartialContexts == { [user |-> "u1", session |-> Undefined],
                     [user |-> Undefined, session |-> "s1"] }

\* what the awaited getSession call can produce: a rejection, an answer with
\* an error object, an answer without data, or data with user and session
\* each present or missing
RemoteOutcomes ==
  { [kind |-> "reject", error |-> NetworkError, hasData |-> FALSE,
     user |-> Undefined, session |-> Undefined] }
  \cup { [kind |-> "resolve", error |-> e, hasData |-> FALSE,
          user |-> Undefined, session |-> Undefined] :
         e \in RemoteErrors \cup {NoError} }
  \cup { [kind |-> "resolve", error |-> NoError, hasData |-> TRUE,
          user |-> d.user, session |-> d.session] :
         d \in AuthContexts \cup PartialContexts }

\* s.slice(0, n): the first n characters of s, all of s if it is shorter
FirstChars(s, n) == SubSeq(s, 1, IF Len(s) < n THEN Len(s) ELSE n)

\* `${sessionToken.slice(0, 8)}...`
maskedToken(sessionToken) == FirstChars(sessionToken, 8) \o <<".", ".", ".">>

\* A record handed to the logger: level, message and the fields of its data
\* object; a field the record does not have is <<>>, "" or -1.
LogRecord(level, msg) ==
  [level |-> level, msg |-> msg, sessionToken |-> <<>>, error |-> "",
   code |-> "", userId |-> "", sessionId |-> "", cacheSize |-> -1]

\* error instanceof Error ? error.message : String(error)
ErrorText(e) == IF e.kind = "Error" THEN e.message ELSE "[object Object]"

LogNoToken == LogRecord("debug", "No session token found in request")
LogProcessing(masked) ==
  [LogRecord("debug", "Processing session") EXCEPT !.sessionToken = masked]
LogCacheHit(masked) ==
  [LogRecord("debug", "Cache hit for session") EXCEPT !.sessionToken = masked]
LogValidationFailed(e) ==
  [LogRecord("error", "Session validation failed")
     EXCEPT !.error = e.message, !.code = e.code]
LogInvalidStructure == LogRecord("error", "Invalid session response structure")
LogValidated(authContext) ==
  [LogRecord("info", "Session validated successfully")
     EXCEPT !.userId = authContext.user, !.sessionId = authContext.session]
LogCached(masked, size) ==
  [LogRecord("debug", "Session cached")
     EXCEPT !.sessionToken = masked, !.cacheSize = size]
LogAuthFailed(e) ==
  [LogRecord("error", "Authentication failed") EXCEPT !.error = ErrorText(e)]

\* cookie headers of the requests
H_namespaced ==
  S_better_auth \o <<".">> \o S_session \o S_token \o <<"=","a","b",";"," ">>
    \o S_other \o <<"=","1">>
H_generic ==
  S_session \o S_token \o <<"=","c","d","e","f","g","h","i","j","k">>
H_nomatch == S_other \o <<"=","1">>
H_empty == <<>>

\* what framework.getHeaders(req) gives: it throws, or returns headers whose
\* cookie field is missing or is one of the header strings
HeaderInputs ==
  { [throws |-> TRUE, hasCookie |-> FALSE, cookie |-> <<>>],
    [throws |-> FALSE, hasCookie |-> FALSE, cookie |-> <<>>] }
  \cup { [throws |-> FALSE, hasCookie |-> TRUE, cookie |-> h] :
         h \in {H_namespaced, H_generic, H_nomatch, H_empty} }

\* the terminal response a user error hook resolves to
HookResponse ==
  [kind |-> "response", by |-> "onError", status |-> 403,
   body |-> [success |-> FALSE, message |-> "custom", code |-> "CUSTOM"]]

NoOutcome ==
  [kind |-> "none", error |-> NoError, hasData |-> FALSE,
   user |-> Undefined, session |-> Undefined]

\* ---------------------------------------------------------------- state
VARIABLES
  cacheEnabled,  \* options.cache?.enabled: sessionCache is an object, not null
  hasOnError,    \* options.onError is configured
  cache,         \* the entries of sessionCache, least recently used first
  now,           \* the clock, in seconds
  pc,            \* per request: "idle", "remote", "next", "hook", "done"
  token,         \* per request: sessionToken (<<>> before extraction / null)
  ctx,           \* per request: what setContext has put into its context
  events,        \* per request: the calls it made to its collaborators and
                 \*   how the awaited ones settled, in order
  path,          \* per request: "none", "hit" (cache) or "miss" (remote)
  cached,        \* per request: the value sessionCache.get returned
  answer,        \* per request: what the awaited getSession produced
  handled,       \* per request: the error the catch block received and the
                 \*   handler (onError / createErrorResponse) it was given to
  result,        \* per request: how the returned promise settled
  header,        \* per request: what framework.getHeaders gave it
  probe,         \* per request: the entry the cache held under its token at
                 \*   the moment it looked (history)
  written,       \* per request: the entry the cache held under its token
                 \*   right after its sessionCache.set (history)
  hitFrom,       \* per request that found a token: lastWriter of its
                 \*   token at the moment it looked it up (history)
  lastWriter,    \* history: per token, the latest request whose remote
                 \*   resolution of that token succeeded (0: none yet)
  logs,          \* per request: the records it handed to the logger, in
                 \*   order
  resolvedAt,    \* history: per token, when its latest successful remote
                 \*   resolution completed (-1: none yet)
  hitAge,        \* per request served from the cache: the time since that
                 \*   resolution when it was served (-1: not served from it)
  atFail,        \* per request: the entry the cache held under its token
                 \*   when its catch block ran, without its age (history)
  stubCache,     \* SessionCache is replaced by a test double whose has and
                 \*   get answer whatever the test makes them answer
  owner,         \* per request: the middleware instance ("A" or "B") it is
                 \*   given to; cache belongs to A
  cacheB,        \* the entries of the sessionCache of instance B
  lastCall,      \* the latest call made directly on a SessionCache, with
                 \*   the cache as it was before the call (history)
  setAt,         \* history: per key, when the entry it has now was set
                 \*   (-1: no entry since the last removal)
  usedOrder,     \* history: the keys that have an entry, in the order of
                 \*   their last set or successful get, oldest first
  cookieHeader,  \* a cookie header being composed
  extracted,     \* the extractor's call on a composed header and its result
  errCall,       \* the latest direct call of createErrorResponse or
                 \*   getErrorMessage: its arguments, the calls it made to
                 \*   the response constructor, and what it returned
  prevCall       \* the call before that one (history)

\* the variables of one invocation of the middleware
reqVars == <<pc, token, ctx, events, path, cached, answer, handled, result,
             header, probe, written, hitFrom, hitAge, lastWriter, resolvedAt,
             logs, atFail>>

\* the variables the middleware never touches
sideVars == <<owner, lastCall, setAt, usedOrder, cookieHeader, extracted,
              errCall, prevCall, stubCache>>

vars == <<cacheEnabled, hasOnError, cache, now, pc, token, ctx, events, path,
          cached, answer, handled, result, header, probe, written, hitFrom,
          hitAge, lastWriter, resolvedAt, logs, atFail, stubCache, owner,
          cacheB, lastCall, setAt,
          usedOrder, cookieHeader, extracted, errCall, prevCall>>

Instances == {"A", "B"}
LruKeys == {"k1", "k2", "k3"}

\* no call was made yet
NoCall ==
  [op |-> "none", key |-> "", at |-> 0, before |-> <<>>, value |-> NoContext,
   found |-> FALSE, usedBefore |-> <<>>, setBefore |-> [k \in LruKeys |-> -1]]

NotExtracted == [done |-> FALSE, of |-> <<>>, token |-> <<>>]

\* no direct call of the error utilities was made yet
NoErrCall ==
  [fn |-> "none", error |-> NoError, ctx |-> "", code |-> "", lang |-> "",
   calls |-> <<>>, returned |-> "", result |-> ""]

\* sessionCache of the instance that handles request r (a const of the
\* closure createAuthMiddleware returns)
sessionCache_singleton(r) == cache

sessionCache(r) == IF owner[r] = "A" THEN cache ELSE cacheB

\* the entries of that cache become c
StoreCache(r, c) ==
  IF owner[r] = "A"
  THEN cache' = c /\ cacheB' = cacheB
  ELSE cacheB' = c /\ cache' = cache

Tokens == {extractSessionToken(h.cookie) : h \in HeaderInputs} \ {<<>>}

Pending == [kind |-> "pending"]
ReturnedUndefined == [kind |-> "undefined"]
Rejected(e) == [kind |-> "rejected", error |-> e]
NotHandled == [by |-> "none", error |-> NoError]
NoHeader == [throws |-> FALSE, hasCookie |-> FALSE, cookie |-> <<"?">>]
NoEntry == [present |-> FALSE, value |-> NoContext, age |-> 0]

\* the entry of cache c under key k as seen at time t, read off the entries
EntryFor(c, k, t) ==
  IF \E i \in 1..Len(c) : c[i].key = k
  THEN LET i == CHOOSE j \in 1..Len(c) : c[j].key = k
       IN [present |-> TRUE, value |-> c[i].value, age |-> t - c[i].start]
  ELSE NoEntry

\* nothing has run yet
Fresh ==
  /\ cache = <<>>
  /\ now = 0
  /\ pc = [r \in Reqs |-> "idle"]
  /\ token = [r \in Reqs |-> <<>>]
  /\ ctx = [r \in Reqs |-> NoContext]
  /\ events = [r \in Reqs |-> <<>>]
  /\ path = [r \in Reqs |-> "none"]
  /\ cached = [r \in Reqs |-> NoContext]
  /\ answer = [r \in Reqs |-> NoOutcome]
  /\ handled = [r \in Reqs |-> NotHandled]
  /\ result = [r \in Reqs |-> Pending]
  /\ header = [r \in Reqs |-> NoHeader]
  /\ probe = [r \in Reqs |-> NoEntry]
  /\ written = [r \in Reqs |-> NoEntry]
  /\ hitFrom = [r \in Reqs |-> 0]
  /\ lastWriter = [t \in Tokens |-> 0]
  /\ resolvedAt = [t \in Tokens |-> -1]
  /\ hitAge = [r \in Reqs |-> -1]
  /\ logs = [r \in Reqs |-> <<>>]
  /\ atFail = [r \in Reqs |-> NoEntry]
  /\ cacheB = <<>>
  /\ lastCall = NoCall
  /\ setAt = [k \in LruKeys |-> -1]
  /\ usedOrder = <<>>
  /\ cookieHeader = <<>>
  /\ extracted = NotExtracted
  /\ errCall = NoErrCall
  /\ prevCall = NoErrCall

\* one middleware instance, with any configuration of cache and hook
Init ==
  /\ cacheEnabled \in BOOLEAN
  /\ hasOnError \in BOOLEAN
  /\ owner = [r \in Reqs |-> "A"]
  /\ stubCache = FALSE
  /\ Fresh

\* a catch block that rethrows when no hook is configured
Fail_rethrow(r, e, ev, lg) ==
  /\ logs' = [logs EXCEPT ![r] = lg \o <<LogAuthFailed(e)>>]
  /\ atFail' = [atFail EXCEPT ![r] =
                    [EntryFor(sessionCache(r), token[r], now) EXCEPT !.age = 0]]
  /\ IF hasOnError
     THEN /\ handled' = [handled EXCEPT ![r] = [by |-> "onError", error |-> e]]
          /\ pc' = [pc EXCEPT ![r] = "hook"]
          /\ events' = [events EXCEPT ![r] = ev \o <<"onError">>]
          /\ result' = result
     ELSE /\ handled' = handled
          /\ pc' = [pc EXCEPT ![r] = "done"]
          /\ events' = [events EXCEPT ![r] = ev]
          /\ result' = [result EXCEPT ![r] = Rejected(e)]

\* ----------------------------------------------------------- middleware
\* The catch block: the failure is logged, then the error goes to the hook
\* when one is configured (its result is awaited), to the classifier
\* otherwise.  ev and lg are the request's events and log records up to the
\* throw.
Fail(r, e, ev, lg) ==
  /\ logs' = [logs EXCEPT ![r] = lg \o <<LogAuthFailed(e)>>]
  /\ atFail' = [atFail EXCEPT ![r] =
                    [EntryFor(sessionCache(r), token[r], now) EXCEPT !.age = 0]]
  /\ IF hasOnError
     THEN /\ handled' = [handled EXCEPT ![r] = [by |-> "onError", error |-> e]]
          /\ pc' = [pc EXCEPT ![r] = "hook"]
          /\ events' = [events EXCEPT ![r] = ev \o <<"onError">>]
          /\ result' = result
     ELSE /\ handled' = [handled EXCEPT ![r] =
                           [by |-> "createErrorResponse", error |-> e]]
          /\ pc' = [pc EXCEPT ![r] = "done"]
          /\ events' = [events EXCEPT ![r] =
                          ev \o <<"createErrorResponse", "createResponse">>]
          /\ result' = [result EXCEPT ![r] = createErrorResponse(e)]

\* an injection that calls next() before it sets the attributes
InjectAndContinue_nextFirst(r, authContext, ev) ==
  /\ ctx' = [ctx EXCEPT ![r] = [user |-> authContext.user,
                                session |-> authContext.session]]
  /\ events' = [events EXCEPT ![r] =
                  ev \o <<"next", "setContext:user", "setContext:session">>]
  /\ pc' = [pc EXCEPT ![r] = "next"]
  /\ UNCHANGED <<handled, result>>

\* setContext(ctx, "user", ..), setContext(ctx, "session", ..), then the call
\* of next(), whose promise is awaited
InjectAndContinue(r, authContext, ev) ==
  /\ ctx' = [ctx EXCEPT ![r] = [user |-> authContext.user,
                                session |-> authContext.session]]
  /\ events' = [events EXCEPT ![r] =
                  ev \o <<"setContext:user", "setContext:session", "next">>]
  /\ pc' = [pc EXCEPT ![r] = "next"]
  /\ UNCHANGED <<handled, result>>

\* a remote call that is made a second time
CallRemote_twice(r, ev) ==
  /\ events' = [events EXCEPT ![r] = ev \o <<"getSession", "getSession">>]
  /\ pc' = [pc EXCEPT ![r] = "remote"]
  /\ path' = [path EXCEPT ![r] = "miss"]
  /\ UNCHANGED <<ctx, handled, result>>

\* the call of authClient.getSession, whose promise is awaited
CallRemote(r, ev) ==
  /\ events' = [events EXCEPT ![r] = ev \o <<"getSession">>]
  /\ pc' = [pc EXCEPT ![r] = "remote"]
  /\ path' = [path EXCEPT ![r] = "miss"]
  /\ UNCHANGED <<ctx, handled, result>>

\* a lookup that consults a cache whether or not caching is enabled
Lookup_alwaysCache(r, sessionToken, ev0) ==
  /\ hitFrom' = [hitFrom EXCEPT ![r] = lastWriter[sessionToken]]
  /\ hitAge' = [hitAge EXCEPT ![r] =
                  IF CacheHas(sessionCache(r), sessionToken, now)
                  THEN now - resolvedAt[sessionToken] ELSE -1]
  /\ IF CacheHas(sessionCache(r), sessionToken, now)
     THEN LET g == CacheGet(sessionCache(r), sessionToken, now)
              ev1 == ev0 \o <<"cache.has", "cache.get">>
          IN /\ StoreCache(r, g.cache)
             /\ cached' = [cached EXCEPT ![r] = g.value]
             /\ path' = [path EXCEPT ![r] = "hit"]
             /\ logs' = [logs EXCEPT ![r] =
                           <<LogProcessing(maskedToken(sessionToken)),
                             LogCacheHit(maskedToken(sessionToken))>>]
             /\ InjectAndContinue(r, g.value, ev1)
     ELSE /\ CallRemote(r, ev0 \o <<"cache.has">>)
          /\ logs' = [logs EXCEPT ![r] =
                        <<LogProcessing(maskedToken(sessionToken))>>]
          /\ UNCHANGED <<cache, cacheB, cached>>

\* What sessionCache.has(k) and, after it, sessionCache.get(k) answer
\* request r: [has, get]; get is the value and the cache after the call.
\* The SessionCache answers from its entries; a test double answers has and
\* get independently of each other and keeps no entries of its own.
CacheAnswers(r, k) ==
  IF stubCache
  THEN { [has |-> h, get |-> [value |-> v, cache |-> sessionCache(r)]] :
           h \in BOOLEAN, v \in AuthContexts \cup {NoContext} }
  ELSE { [has |-> CacheHas(sessionCache(r), k, now),
          get |-> CacheGet(LruAfterHas(sessionCache(r), k, now, CacheTtl),
                           k, now)] }

\* a lookup that injects whatever get returned once has was true
Lookup_trustHas(r, sessionToken, ev0) ==
  \E a \in CacheAnswers(r, sessionToken) :
  /\ hitFrom' = [hitFrom EXCEPT ![r] = lastWriter[sessionToken]]
  /\ hitAge' = [hitAge EXCEPT ![r] =
                  IF cacheEnabled /\ a.has
                  THEN now - resolvedAt[sessionToken] ELSE -1]
  /\ IF cacheEnabled /\ a.has
     THEN /\ StoreCache(r, a.get.cache)
          /\ cached' = [cached EXCEPT ![r] = a.get.value]
          /\ path' = [path EXCEPT ![r] = "hit"]
          /\ logs' = [logs EXCEPT ![r] =
                        <<LogProcessing(maskedToken(sessionToken)),
                          LogCacheHit(maskedToken(sessionToken))>>]
          /\ InjectAndContinue(r, a.get.value,
                               ev0 \o <<"cache.has", "cache.get">>)
     ELSE /\ CallRemote(r, IF cacheEnabled THEN ev0 \o <<"cache.has">>
                                            ELSE ev0)
          /\ logs' = [logs EXCEPT ![r] =
                        <<LogProcessing(maskedToken(sessionToken))>>]
          /\ UNCHANGED <<cache, cacheB, cached>>

\* After a token was found: the masked token is logged, then the cache
\* lookup, then either the injection of the cached context or the remote
\* call.
Lookup(r, sessionToken, ev0) ==
  \E a \in CacheAnswers(r, sessionToken) :
  LET masked == maskedToken(sessionToken)
      lg0 == <<LogProcessing(masked)>>
  IN
  /\ hitFrom' = [hitFrom EXCEPT ![r] = lastWriter[sessionToken]]
  /\ hitAge' = [hitAge EXCEPT ![r] =
                  IF cacheEnabled /\ a.has /\ a.get.value # NoContext
                  THEN now - resolvedAt[sessionToken] ELSE -1]
  /\ IF cacheEnabled /\ a.has
     THEN LET g == a.get
              ev1 == ev0 \o <<"cache.has", "cache.get">>
          IN /\ StoreCache(r, g.cache)
             /\ IF g.value # NoContext
                THEN /\ cached' = [cached EXCEPT ![r] = g.value]
                     /\ path' = [path EXCEPT ![r] = "hit"]
                     /\ logs' = [logs EXCEPT ![r] =
                                   lg0 \o <<LogCacheHit(masked)>>]
                     /\ InjectAndContinue(r, g.value, ev1)
                ELSE /\ CallRemote(r, ev1)
                     /\ logs' = [logs EXCEPT ![r] = lg0]
                     /\ UNCHANGED cached
     ELSE /\ CallRemote(r, IF cacheEnabled THEN ev0 \o <<"cache.has">>
                                            ELSE ev0)
          /\ logs' = [logs EXCEPT ![r] = lg0]
          /\ UNCHANGED <<cache, cacheB, cached>>

\* The middleware is called for request r: everything up to its first await.
\* Requests are numbered in the order in which the middleware is called.
Start(r, h) ==
  /\ pc[r] = "idle"
  /\ \A q \in Reqs : q < r => pc[q] # "idle"
  /\ header' = [header EXCEPT ![r] = h]
  /\ UNCHANGED <<cacheEnabled, hasOnError, now, answer, written, lastWriter,
                 resolvedAt>>
  /\ UNCHANGED sideVars
  /\ IF h.throws
     THEN /\ Fail(r, HeadersError, <<"getHeaders">>, <<>>)
          /\ UNCHANGED <<cache, cacheB, token, ctx, path, cached, probe,
                         hitFrom, hitAge>>
     ELSE
       LET cookieString == IF h.hasCookie THEN h.cookie ELSE <<>>
           sessionToken == extractSessionToken(cookieString)
           ev0 == <<"getHeaders", "extractSessionToken">>
       IN
         /\ token' = [token EXCEPT ![r] = sessionToken]
         /\ IF sessionToken = <<>>
            THEN /\ Fail(r, NoTokenError, ev0, <<LogNoToken>>)
                 /\ UNCHANGED <<cache, cacheB, ctx, path, cached, probe,
                                hitFrom, hitAge>>
            ELSE /\ probe' = [probe EXCEPT ![r] =
                                IF cacheEnabled
                                THEN EntryFor(sessionCache(r), sessionToken,
                                              now)
                                ELSE NoEntry]
                 /\ Lookup(r, sessionToken, ev0)
                 /\ UNCHANGED atFail

\* if (sessionResponse.error)
HasError(o) == o.error # NoError

\* a structure check that forgets the session
InvalidResponse_userOnly(o) == ~o.hasData \/ o.user = Undefined

\* a structure check that forgets the user
InvalidResponse_sessionOnly(o) == ~o.hasData \/ o.session = Undefined

\* if (!sessionResponse.data?.session || !sessionResponse.data?.user)
InvalidResponse(o) ==
  ~o.hasData \/ o.session = Undefined \/ o.user = Undefined

\* The awaited getSession call of request r settles with outcome o:
\* everything from there up to the next await.
RemoteReturn(r, o) ==
  /\ pc[r] = "remote"
  /\ answer' = [answer EXCEPT ![r] = o]
  /\ UNCHANGED <<cacheEnabled, hasOnError, now, token, path, cached, header,
                 probe, hitFrom, hitAge>>
  /\ UNCHANGED sideVars
  /\ IF o.kind = "reject"
     THEN /\ Fail(r, o.error, events[r] \o <<"getSession:throw">>, logs[r])
          /\ UNCHANGED <<cache, cacheB, ctx, written, lastWriter, resolvedAt>>
     ELSE IF HasError(o)
     THEN /\ Fail(r, o.error, events[r] \o <<"getSession:return">>,
               logs[r] \o <<LogValidationFailed(o.error)>>)
          /\ UNCHANGED <<cache, cacheB, ctx, written, lastWriter, resolvedAt>>
     ELSE IF InvalidResponse(o)
     THEN /\ Fail(r, InvalidResponseError,
               events[r] \o <<"getSession:return">>,
               logs[r] \o <<LogInvalidStructure>>)
          /\ UNCHANGED <<cache, cacheB, ctx, written, lastWriter, resolvedAt>>
     ELSE
       LET authContext == [user |-> o.user, session |-> o.session]
           ev == events[r] \o <<"getSession:return">>
       IN
         /\ lastWriter' = [lastWriter EXCEPT ![token[r]] = r]
         /\ resolvedAt' = [resolvedAt EXCEPT ![token[r]] = now]
         /\ UNCHANGED atFail
         /\ IF cacheEnabled
            THEN /\ StoreCache(r, CacheSet(sessionCache(r), token[r],
                                            authContext, now))
                 /\ written' = [written EXCEPT ![r] =
                                   EntryFor(sessionCache(r)', token[r], now)]
                 /\ logs' = [logs EXCEPT ![r] =
                               @ \o <<LogValidated(authContext),
                                      LogCached(maskedToken(token[r]),
                                                CacheSize(sessionCache(r)'))>>]
                 /\ InjectAndContinue(r, authContext,
                                      ev \o <<"cache.set", "cache.size">>)
            ELSE /\ UNCHANGED <<cache, cacheB>>
                 /\ written' = written
                 /\ logs' = [logs EXCEPT ![r] =
                               @ \o <<LogValidated(authContext)>>]
                 /\ InjectAndContinue(r, authContext, ev)

\* a middleware that, once the continuation has completed, waits for
\* something that never comes
NextReturn_hang(r) ==
  /\ pc[r] = "next"
  /\ pc' = [pc EXCEPT ![r] = "waiting"]
  /\ events' = [events EXCEPT ![r] = @ \o <<"next:return">>]
  /\ UNCHANGED sideVars
  /\ UNCHANGED <<cacheEnabled, hasOnError, cache, cacheB, now, token, ctx,
                 path, cached, answer, handled, result, header, probe,
                 written, hitFrom, hitAge, lastWriter, resolvedAt, logs,
                 atFail>>

\* the continuation of request r completes: the middleware returns undefined
NextReturn(r) ==
  /\ pc[r] = "next"
  /\ pc' = [pc EXCEPT ![r] = "done"]
  /\ events' = [events EXCEPT ![r] = @ \o <<"next:return">>]
  /\ result' = [result EXCEPT ![r] = ReturnedUndefined]
  /\ UNCHANGED sideVars
  /\ UNCHANGED <<cacheEnabled, hasOnError, cache, cacheB, now, token, ctx,
                 path, cached, answer, handled, header, probe, written,
                 hitFrom, hitAge, lastWriter, resolvedAt, logs, atFail>>

\* a continuation whose exception is outside the try block: it rejects the
\* middleware's promise
NextThrow_propagate(r) ==
  /\ pc[r] = "next"
  /\ pc' = [pc EXCEPT ![r] = "done"]
  /\ events' = [events EXCEPT ![r] = @ \o <<"next:throw">>]
  /\ result' = [result EXCEPT ![r] = Rejected(DownstreamError)]
  /\ UNCHANGED sideVars
  /\ UNCHANGED <<cacheEnabled, hasOnError, cache, cacheB, now, token, ctx, path,
                 cached, answer, handled, header, probe, written, hitFrom,
                 hitAge, lastWriter, resolvedAt, logs, atFail>>

\* the continuation of request r throws inside the try block
NextThrow(r) ==
  /\ pc[r] = "next"
  /\ Fail(r, DownstreamError, events[r] \o <<"next:throw">>, logs[r])
  /\ UNCHANGED sideVars
  /\ UNCHANGED <<cacheEnabled, hasOnError, cache, cacheB, now, token, ctx, path,
                 cached, answer, header, probe, written, hitFrom, hitAge,
                 lastWriter, resolvedAt>>

\* a catch block that classifies the error although the hook answered
HookReturn_classified(r) ==
  /\ pc[r] = "hook"
  /\ pc' = [pc EXCEPT ![r] = "done"]
  /\ events' = [events EXCEPT ![r] = @ \o <<"onError:return">>]
  /\ result' = [result EXCEPT ![r] = createErrorResponse(handled[r].error)]
  /\ UNCHANGED sideVars
  /\ UNCHANGED <<cacheEnabled, hasOnError, cache, cacheB, now, token, ctx,
                 path, cached, answer, handled, header, probe, written,
                 hitFrom, hitAge, lastWriter, resolvedAt, logs, atFail>>

\* the awaited error hook of request r resolves: its value is returned
HookReturn(r) ==
  /\ pc[r] = "hook"
  /\ pc' = [pc EXCEPT ![r] = "done"]
  /\ events' = [events EXCEPT ![r] = @ \o <<"onError:return">>]
  /\ result' = [result EXCEPT ![r] = HookResponse]
  /\ UNCHANGED sideVars
  /\ UNCHANGED <<cacheEnabled, hasOnError, cache, cacheB, now, token, ctx,
                 path, cached, answer, handled, header, probe, written,
                 hitFrom, hitAge, lastWriter, resolvedAt, logs, atFail>>

\* a catch block that catches the hook's own exception and classifies it
HookThrow_caught(r) ==
  /\ pc[r] = "hook"
  /\ pc' = [pc EXCEPT ![r] = "done"]
  /\ events' = [events EXCEPT ![r] = @ \o <<"onError:throw">>]
  /\ result' = [result EXCEPT ![r] = createErrorResponse(HookError)]
  /\ UNCHANGED sideVars
  /\ UNCHANGED <<cacheEnabled, hasOnError, cache, cacheB, now, token, ctx,
                 path, cached, answer, handled, header, probe, written,
                 hitFrom, hitAge, lastWriter, resolvedAt, logs, atFail>>

\* the error hook of request r throws or rejects: nothing catches it
HookThrow(r) ==
  /\ pc[r] = "hook"
  /\ pc' = [pc EXCEPT ![r] = "done"]
  /\ events' = [events EXCEPT ![r] = @ \o <<"onError:throw">>]
  /\ result' = [result EXCEPT ![r] = Rejected(HookError)]
  /\ UNCHANGED sideVars
  /\ UNCHANGED <<cacheEnabled, hasOnError, cache, cacheB, now, token, ctx,
                 path, cached, answer, handled, header, probe, written,
                 hitFrom, hitAge, lastWriter, resolvedAt, logs, atFail>>

\* time passes
Tick ==
  /\ now < MaxTime
  /\ now' = now + 1
  /\ UNCHANGED sideVars
  /\ UNCHANGED <<cacheEnabled, hasOnError, cache, cacheB, pc, token, ctx,
                 events,
                 path, cached, answer, handled, result, header, probe,
                 written, hitFrom, hitAge, lastWriter, resolvedAt, logs, atFail>>

Next ==
  \/ \E r \in Reqs, h \in HeaderInputs : Start(r, h)
  \/ \E r \in Reqs, o \in RemoteOutcomes : RemoteReturn(r, o)
  \/ \E r \in Reqs : NextReturn(r)
  \/ \E r \in Reqs : NextThrow(r)
  \/ \E r \in Reqs : HookReturn(r)
  \/ \E r \in Reqs : HookThrow(r)
  \/ Tick

Spec == Init /\ [][Next]_vars

\* The awaited collaborators settle: every getSession call in flight
\* eventually resolves or rejects, and every continuation that was called
\* eventually returns or throws.  Nothing is assumed of the error hook, of
\* the arrival of requests or of the clock.
LiveSpec ==
  /\ Init
  /\ [][Next]_vars
  /\ \A r \in Reqs : WF_vars(\E o \in RemoteOutcomes : RemoteReturn(r, o))
  /\ \A r \in Reqs : WF_vars(NextReturn(r) \/ NextThrow(r))

\* ------------------------------------------------- two middleware instances
\* Two createAuthMiddleware calls with the same options: every request is
\* given to one of the two middlewares, each of which has its own closure.
TwoInit ==
  /\ cacheEnabled = TRUE
  /\ hasOnError \in BOOLEAN
  /\ owner \in [Reqs -> Instances]
  /\ stubCache = FALSE
  /\ Fresh

TwoSpec == TwoInit /\ [][Next]_vars

\* ------------------------------------------- a long run of requests
\* The middleware keeps being called, one request after the other: an
\* invocation that has settled is over, and its number stands for the next
\* request that arrives.  What the instance keeps between requests is its
\* cache.
Settle(r) ==
  /\ pc[r] = "done"
  /\ pc' = [pc EXCEPT ![r] = "idle"]
  /\ token' = [token EXCEPT ![r] = <<>>]
  /\ ctx' = [ctx EXCEPT ![r] = NoContext]
  /\ events' = [events EXCEPT ![r] = <<>>]
  /\ path' = [path EXCEPT ![r] = "none"]
  /\ cached' = [cached EXCEPT ![r] = NoContext]
  /\ answer' = [answer EXCEPT ![r] = NoOutcome]
  /\ handled' = [handled EXCEPT ![r] = NotHandled]
  /\ result' = [result EXCEPT ![r] = Pending]
  /\ header' = [header EXCEPT ![r] = NoHeader]
  /\ probe' = [probe EXCEPT ![r] = NoEntry]
  /\ written' = [written EXCEPT ![r] = NoEntry]
  /\ hitFrom' = [hitFrom EXCEPT ![r] = 0]
  /\ hitAge' = [hitAge EXCEPT ![r] = -1]
  /\ logs' = [logs EXCEPT ![r] = <<>>]
  /\ atFail' = [atFail EXCEPT ![r] = NoEntry]
  /\ UNCHANGED <<cacheEnabled, hasOnError, cache, cacheB, now, lastWriter,
                 resolvedAt>>
  /\ UNCHANGED sideVars

RepeatInit ==
  /\ cacheEnabled = TRUE
  /\ hasOnError \in BOOLEAN
  /\ owner = [r \in Reqs |-> "A"]
  /\ stubCache = FALSE
  /\ Fresh

RepeatNext ==
  \/ \E h \in HeaderInputs : Start(1, h)
  \/ \E o \in RemoteOutcomes : RemoteReturn(1, o)
  \/ NextReturn(1)
  \/ NextThrow(1)
  \/ HookReturn(1)
  \/ HookThrow(1)
  \/ Tick
  \/ Settle(1)

RepeatSpec == RepeatInit /\ [][RepeatNext]_vars

\* ------------------------------------------- the cache as a test double
\* The middleware with caching enabled and SessionCache replaced by a test
\* double, as its tests do: has and get answer independently of each other.
StubInit ==
  /\ cacheEnabled = TRUE
  /\ hasOnError \in BOOLEAN
  /\ owner = [r \in Reqs |-> "A"]
  /\ stubCache = TRUE
  /\ Fresh

StubSpec == StubInit /\ [][Next]_vars

\* ------------------------------------------- a SessionCache used on its own
\* new SessionCache(LruMax, LruTtl), called directly as the exported class
\* allows: any sequence of get, set, has, delete, clear and size while time
\* passes.  cache holds its entries.
Keys(c) == {c[i].key : i \in 1..Len(c)}

\* key k becomes the most recently used of the order
Touch(order, k) == Append(SelectSeq(order, LAMBDA x : x # k), k)

\* the order restricted to the keys cache c still holds
Keep(order, c) == SelectSeq(order, LAMBDA x : x \in Keys(c))

\* setAt after a call that left cache c, key k having been set (or "")
SetAtAfter(c, k, t) ==
  [x \in LruKeys |-> IF x = k THEN t
                     ELSE IF x \in Keys(c) THEN setAt[x] ELSE -1]

Call(op, k) ==
  [op |-> op, key |-> k, at |-> now, before |-> cache, value |-> NoContext,
   found |-> FALSE, usedBefore |-> usedOrder, setBefore |-> setAt]

CacheFrame ==
  UNCHANGED <<cacheEnabled, hasOnError, owner, cacheB, reqVars, cookieHeader,
              extracted, errCall, prevCall, stubCache>>

CacheInit ==
  /\ cacheEnabled = TRUE
  /\ hasOnError = FALSE
  /\ owner = [r \in Reqs |-> "A"]
  /\ stubCache = FALSE
  /\ Fresh

DoGet(k) ==
  LET g == LruGet(cache, k, now, LruTtl) IN
    /\ cache' = g.cache
    /\ lastCall' = [Call("get", k) EXCEPT !.value = g.value]
    /\ usedOrder' = IF g.value # NoContext THEN Touch(usedOrder, k)
                    ELSE Keep(usedOrder, g.cache)
    /\ UNCHANGED <<now, setAt>>
    /\ CacheFrame

DoSet(k, v) ==
  /\ cache' = LruSet(cache, k, v, now, LruMax)
  /\ lastCall' = [Call("set", k) EXCEPT !.value = v]
  /\ usedOrder' = Keep(Touch(usedOrder, k), cache')
  /\ setAt' = SetAtAfter(cache', k, now)
  /\ UNCHANGED now
  /\ CacheFrame

DoHas(k) ==
  /\ lastCall' = [Call("has", k) EXCEPT !.found = LruHas(cache, k, now, LruTtl)]
  /\ cache' = LruAfterHas(cache, k, now, LruTtl)
  /\ UNCHANGED <<now, setAt, usedOrder>>
  /\ CacheFrame

DoDelete(k) ==
  /\ cache' = CacheDelete(cache, k)
  /\ lastCall' = [Call("delete", k) EXCEPT !.found = (IndexOf(cache, k) # 0)]
  /\ usedOrder' = Keep(usedOrder, cache')
  /\ setAt' = SetAtAfter(cache', "", now)
  /\ UNCHANGED now
  /\ CacheFrame

DoClear ==
  /\ cache' = CacheClear(cache)
  /\ lastCall' = Call("clear", "")
  /\ usedOrder' = <<>>
  /\ setAt' = [k \in LruKeys |-> -1]
  /\ UNCHANGED now
  /\ CacheFrame

LruTick ==
  /\ now < LruMaxTime
  /\ now' = now + 1
  /\ UNCHANGED <<cache, lastCall, setAt, usedOrder>>
  /\ CacheFrame

CacheNext ==
  \/ \E k \in LruKeys : DoGet(k)
  \/ \E k \in LruKeys, v \in AuthContexts : DoSet(k, v)
  \/ \E k \in LruKeys : DoHas(k)
  \/ \E k \in LruKeys : DoDelete(k)
  \/ DoClear
  \/ LruTick

CacheSpec == CacheInit /\ [][CacheNext]_vars

\* ------------------------------------------------- the extractor on its own
\* cookies of which the headers are composed
K_namespaced == S_better_auth \o <<".">> \o S_session \o S_token \o <<"=","a","b">>
K_generic == S_session \o S_token \o <<"=","c","d">>
K_bare == S_session \o <<"=","e","f">>
K_other == S_other \o <<"=","1">>
K_suffix == <<"m","y","_">> \o S_session \o <<"=","g","h">>
K_emptyNamespaced == S_better_auth \o <<".">> \o S_session \o S_token \o <<"=">>
K_blankGeneric == S_session \o S_token \o <<"=", " ">>

Cookies ==
  {K_namespaced, K_generic, K_bare, K_other, K_suffix, K_emptyNamespaced,
   K_blankGeneric}

\* the first position of character ch in s (0: none)
FirstIndex(s, ch) ==
  IF \E i \in 1..Len(s) : s[i] = ch
  THEN CHOOSE i \in 1..Len(s) : s[i] = ch /\ \A j \in 1..(i - 1) : s[j] # ch
  ELSE 0

RECURSIVE Split(_, _)
\* the pieces of s between the occurrences of ch
Split(s, ch) ==
  LET i == FirstIndex(s, ch) IN
    IF i = 0 THEN <<s>>
    ELSE <<SubSeq(s, 1, i - 1)>> \o Split(SubSeq(s, i + 1, Len(s)), ch)

RECURSIVE TrimLeft(_)
TrimLeft(s) == IF s # <<>> /\ Head(s) = " " THEN TrimLeft(Tail(s)) ELSE s

\* the cookies of a header "name=value; name=value" as [name, value] pairs
CookiePairs(s) ==
  LET ps == Split(s, ";")
      pair(p) == LET q == TrimLeft(p)
                     i == FirstIndex(q, "=")
                 IN IF i = 0 THEN [name |-> q, value |-> <<>>]
                    ELSE [name |-> SubSeq(q, 1, i - 1),
                          value |-> SubSeq(q, i + 1, Len(q))]
  IN [i \in 1..Len(ps) |-> pair(ps[i])]

\* the value of the first cookie of that name with a non-empty value
\* (<<>>: there is none)
CookieValue(s, name) ==
  LET ps == CookiePairs(s)
      hits == {i \in 1..Len(ps) : ps[i].name = name /\ ps[i].value # <<>>}
  IN IF hits = {} THEN <<>>
     ELSE ps[CHOOSE i \in hits : \A j \in hits : i <= j].value

\* the token chosen by cookie name: the namespaced one, else the generic
\* one, else the bare one (<<>>: null)
TokenByName(s) ==
  IF CookieValue(s, sessionCookieNames[1]) # <<>>
  THEN CookieValue(s, sessionCookieNames[1])
  ELSE IF CookieValue(s, sessionCookieNames[2]) # <<>>
  THEN CookieValue(s, sessionCookieNames[2])
  ELSE CookieValue(s, sessionCookieNames[3])

NumCookies(s) == IF s = <<>> THEN 0 ELSE Len(Split(s, ";"))

ExtractFrame ==
  UNCHANGED <<cacheEnabled, hasOnError, cache, now, owner, cacheB, reqVars,
              lastCall, setAt, usedOrder, errCall, prevCall, stubCache>>

\* one more cookie is appended to the header
AddCookie(c) ==
  /\ ~extracted.done
  /\ NumCookies(cookieHeader) < MaxCookies
  /\ cookieHeader' = IF cookieHeader = <<>> THEN c
                     ELSE cookieHeader \o <<";", " ">> \o c
  /\ UNCHANGED extracted
  /\ ExtractFrame

\* SessionCache.extractSessionToken(cookieHeader), called on the header
Extract ==
  /\ ~extracted.done
  /\ extracted' = [done |-> TRUE, of |-> cookieHeader,
                   token |-> extractSessionToken(cookieHeader)]
  /\ UNCHANGED cookieHeader
  /\ ExtractFrame

ExtractNext == (\E c \in Cookies : AddCookie(c)) \/ Extract

ExtractSpec == CacheInit /\ [][ExtractNext]_vars

\* ------------------------------------------- the error utilities on their own
\* error values handed to createErrorResponse: objects with each of message,
\* code and status present or not, an Error instance, and null, undefined
\* and a string
ErrorInputs ==
  { MkError("object", m, c, st) :
      m \in {"", "Custom error message"},
      c \in {"", "UNAUTHORIZED", "SESSION_EXPIRED", "UNKNOWN_ERROR"},
      st \in {0, 403, 422} }
  \cup { MkError("Error", "Regular error message", "", 0),
         MkError("null", "", "", 0), MkError("undefined", "", "", 0),
         MkError("string", "String error message", "", 0) }

\* the callers: the context each passes and what its adapter's response
\* constructor gives back
Callers == { [ctx |-> "ctx1", response |-> "response1"],
            [ctx |-> "ctx2", response |-> "response2"] }

\* codes and languages getErrorMessage is asked for (Undefined: lang omitted)
CodeInputs == ErrorCodes \cup {"", "UNKNOWN_ERROR", "constructor"}
LangInputs == {"en", "es", Undefined}

ErrorFrame ==
  UNCHANGED <<cacheEnabled, hasOnError, cache, now, owner, cacheB, reqVars,
              lastCall, setAt, usedOrder, cookieHeader, extracted, stubCache>>

\* createErrorResponse(error, ctx, createResponse), createResponse returning
\* resp: one call of createResponse, whose result is returned
DoCreateErrorResponse(e, c, resp) ==
  LET a == createErrorResponse(e) IN
    /\ prevCall' = errCall
    /\ errCall' = [fn |-> "createErrorResponse", error |-> e, ctx |-> c,
                   code |-> "", lang |-> "",
                   calls |-> << [ctx |-> c, body |-> a.body,
                                 status |-> a.status] >>,
                   returned |-> resp, result |-> resp]
    /\ ErrorFrame

\* getErrorMessage(code, lang)
DoGetErrorMessage(c, l) ==
  /\ prevCall' = errCall
  /\ errCall' = [fn |-> "getErrorMessage", error |-> NoError, ctx |-> "",
                 code |-> c, lang |-> l, calls |-> <<>>, returned |-> "",
                 result |-> getErrorMessage(c, l)]
  /\ ErrorFrame

ErrorNext ==
  \/ \E e \in ErrorInputs, c \in Callers :
       DoCreateErrorResponse(e, c.ctx, c.response)
  \/ \E c \in CodeInputs, l \in LangInputs : DoGetErrorMessage(c, l)

ErrorSpec == CacheInit /\ [][ErrorNext]_vars

\* ------------------------------------------------------------- helpers
Count(ev, name) == Cardinality({i \in 1..Len(ev) : ev[i] = name})
Called(r, name) == \E i \in 1..Len(events[r]) : events[r][i] = name

TypeOK ==
  /\ cacheEnabled \in BOOLEAN
  /\ \A r \in Reqs : pc[r] \in {"idle", "remote", "next", "hook", "done"}
  /\ Len(cache) <= CacheMax

\* a remote answer that carries both a user and a session
Full(o) ==
  /\ o.kind = "resolve" /\ o.error = NoError /\ o.hasData
  /\ o.user # Undefined /\ o.session # Undefined

\* a remote answer without error object that lacks data, user or session
Malformed(o) == o.kind = "resolve" /\ o.error = NoError /\ ~Full(o)

\* request r was given no cookie from which a token can be extracted
NoTokenInput(r) ==
  /\ pc[r] # "idle" /\ ~header[r].throws
  /\ (~header[r].hasCookie \/ header[r].cookie \in {H_empty, H_nomatch})

\* one of the inputs of request r makes it fail
FailureInput(r) ==
  /\ pc[r] # "idle"
  /\ \/ header[r].throws
     \/ NoTokenInput(r)
     \/ answer[r].kind = "reject"
     \/ answer[r].kind = "resolve" /\ ~Full(answer[r])
     \/ Called(r, "next:throw")

\* the error that input throws into the catch block
ExpectedError(r) ==
  IF header[r].throws THEN HeadersError
  ELSE IF NoTokenInput(r) THEN NoTokenError
  ELSE IF answer[r].kind = "reject" THEN answer[r].error
  ELSE IF answer[r].kind = "resolve" /\ answer[r].error # NoError
  THEN answer[r].error
  ELSE IF Malformed(answer[r]) THEN InvalidResponseError
  ELSE DownstreamError

Injected(r) == Called(r, "setContext:user") \/ Called(r, "setContext:session")
TouchedCache(r) ==
  Called(r, "cache.has") \/ Called(r, "cache.get") \/ Called(r, "cache.set")

\* ---------------------------------------------------------------- claims

\* C1: with caching enabled, a request whose token has an unexpired cache
\* entry (younger than the ttl) when it arrives makes no remote call and no
\* cache.set, has exactly the cached user and session injected, invokes the
\* continuation once, and returns undefined once the continuation completes.
C1_CacheHit ==
  \A r \in Reqs :
    (cacheEnabled /\ pc[r] # "idle" /\ probe[r].present
       /\ probe[r].age < CacheTtl)
    => /\ path[r] = "hit"
       /\ ~Called(r, "getSession")
       /\ ~Called(r, "cache.set")
       /\ ctx[r] = probe[r].value
       /\ Called(r, "setContext:user") /\ Called(r, "setContext:session")
       /\ Count(events[r], "next") = 1
       /\ (pc[r] = "next" => result[r] = Pending)
       /\ (Called(r, "next:return")
             => pc[r] = "done" /\ result[r] = ReturnedUndefined)

C1_Witness ==
  \E r \in Reqs :
    /\ cacheEnabled /\ probe[r].present /\ probe[r].age < CacheTtl
    /\ pc[r] = "done" /\ result[r] = ReturnedUndefined

\* C2: a request that went to the remote resolver and got an answer with
\* both user and session has that pair stored in the cache under its token
\* (caching enabled; no cache write otherwise), has exactly that user and
\* session injected, invokes the continuation once, and returns undefined
\* once the continuation completes.
C2_RemoteSuccess ==
  \A r \in Reqs :
    Full(answer[r])
    => /\ path[r] = "miss"
       /\ ctx[r] = [user |-> answer[r].user, session |-> answer[r].session]
       /\ Count(events[r], "setContext:user") = 1
       /\ Count(events[r], "setContext:session") = 1
       /\ Count(events[r], "next") = 1
       /\ IF cacheEnabled
          THEN /\ Count(events[r], "cache.set") = 1
               /\ written[r] = [present |-> TRUE, value |-> ctx[r], age |-> 0]
          ELSE /\ ~TouchedCache(r) /\ cache = <<>>
               /\ written[r] = NoEntry
       /\ (pc[r] = "next" => result[r] = Pending)
       /\ (Called(r, "next:return")
             => pc[r] = "done" /\ result[r] = ReturnedUndefined)

C2_Witness ==
  \E r \in Reqs :
    /\ cacheEnabled /\ Full(answer[r]) /\ written[r].present
    /\ pc[r] = "done" /\ result[r] = ReturnedUndefined

\* C3: every cache entry and every injected context is the user and session
\* of a remote answer, to a request with that token, in which both were
\* present; a remote answer that lacks data, user or session ends the request
\* in FAIL with no cache write, no injection and no continuation call.
C3_OnlyFullContexts ==
  /\ \A i \in 1..Len(cache) :
       /\ cache[i].value.user # Undefined /\ cache[i].value.session # Undefined
       /\ \E q \in Reqs :
            /\ token[q] = cache[i].key /\ Full(answer[q])
            /\ cache[i].value =
                 [user |-> answer[q].user, session |-> answer[q].session]
  /\ \A r \in Reqs :
       (ctx[r] # NoContext \/ Injected(r))
       => /\ ctx[r].user # Undefined /\ ctx[r].session # Undefined
          /\ \E q \in Reqs :
               /\ token[q] = token[r] /\ Full(answer[q])
               /\ ctx[r] =
                    [user |-> answer[q].user, session |-> answer[q].session]
  /\ \A r \in Reqs :
       Malformed(answer[r])
       => /\ pc[r] \in {"hook", "done"}
          /\ handled[r].by # "none"
          /\ handled[r].error = InvalidResponseError
          /\ ctx[r] = NoContext /\ ~Injected(r)
          /\ ~Called(r, "cache.set") /\ written[r] = NoEntry
          /\ ~Called(r, "next")
          /\ result[r] # ReturnedUndefined

C3_Witness ==
  /\ Len(cache) > 0
  /\ \E r \in Reqs :
       /\ Malformed(answer[r]) /\ answer[r].hasData
       /\ answer[r].user = Undefined /\ pc[r] = "done"

\* C4: a request whose cookie header is missing, empty or holds no session
\* cookie ends in FAIL with the "no session token" error: the remote
\* resolver is never called, the cache is not touched, nothing is injected,
\* the continuation is never invoked, and what the request returns is the
\* terminal response of the classifier or of the configured hook.
C4_NoToken ==
  \A r \in Reqs :
    NoTokenInput(r)
    => /\ token[r] = <<>>
       /\ handled[r].error = NoTokenError
       /\ handled[r].by = IF hasOnError THEN "onError" ELSE "createErrorResponse"
       /\ ~Called(r, "getSession")
       /\ ~TouchedCache(r) /\ probe[r] = NoEntry /\ written[r] = NoEntry
       /\ ~Injected(r) /\ ctx[r] = NoContext
       /\ ~Called(r, "next")
       /\ (~hasOnError => pc[r] = "done" /\ result[r].kind = "response")
       /\ (Called(r, "onError:return")
             => pc[r] = "done" /\ result[r].kind = "response")
       /\ result[r] # ReturnedUndefined

C4_Witness ==
  \E r \in Reqs :
    /\ header[r] = [throws |-> FALSE, hasCookie |-> TRUE, cookie |-> H_nomatch]
    /\ pc[r] = "done" /\ result[r].kind = "response"

\* C5: when the remote resolver answers with an error object, that same
\* object is what the hook or the classifier receives and the continuation
\* is not invoked; with no hook, code SESSION_EXPIRED gives a terminal
\* response with code SESSION_EXPIRED and message "Session has expired".
C5_RemoteError ==
  \A r \in Reqs :
    (answer[r].kind = "resolve" /\ answer[r].error # NoError)
    => /\ handled[r].error = answer[r].error
       /\ handled[r].by = IF hasOnError THEN "onError" ELSE "createErrorResponse"
       /\ ~Called(r, "next") /\ ~Injected(r) /\ ctx[r] = NoContext
       /\ (~hasOnError /\ answer[r].error.code = "SESSION_EXPIRED"
             => /\ pc[r] = "done"
                /\ result[r].kind = "response"
                /\ result[r].body.code = "SESSION_EXPIRED"
                /\ result[r].body.message = "Session has expired"
                /\ result[r].body.success = FALSE)

C5_Witness ==
  /\ ~hasOnError
  /\ \E r \in Reqs :
       /\ answer[r].kind = "resolve"
       /\ answer[r].error.code = "SESSION_EXPIRED"
       /\ pc[r] = "done"

\* C6: with no error hook, no request's promise rejects, and every request
\* one of whose inputs makes it fail (header extraction throws, no token,
\* the remote call rejects, answers with an error object or with a malformed
\* response) returns a structured response built by the classifier.
C6_NoHookNeverRejects ==
  ~hasOnError
  => \A r \in Reqs :
       /\ result[r].kind # "rejected"
       /\ (pc[r] = "done") = (result[r] # Pending)
       /\ FailureInput(r)
          => /\ pc[r] = "done"
             /\ result[r].kind = "response"
             /\ result[r].by = "createErrorResponse"
             /\ result[r].body.success = FALSE
             /\ result[r].body.code # "" /\ result[r].body.message # ""
             /\ result[r].status # 0
             /\ handled[r] =
                  [by |-> "createErrorResponse", error |-> ExpectedError(r)]

C6_Witness ==
  /\ ~hasOnError
  /\ \E r \in Reqs :
       answer[r].kind = "reject" /\ pc[r] = "done" /\ result[r].kind = "response"

\* C7: context injection happens only on overall success: a request that
\* ends with a terminal response never had setContext called, and a request
\* for which setContext was called returns no result.
C7_InjectionOnlyOnSuccess ==
  \A r \in Reqs :
    /\ (pc[r] = "done" /\ result[r].kind = "response")
         => ~Injected(r) /\ ctx[r] = NoContext
    /\ (pc[r] = "done" /\ Injected(r)) => result[r] = ReturnedUndefined

\* C8: with an error hook configured, every failing request calls the hook
\* exactly once with the error that made it fail, never calls the
\* classifier, and returns the value the hook resolves to.
C8_HookHandlesFailure ==
  hasOnError
  => \A r \in Reqs :
       /\ FailureInput(r)
          => /\ Count(events[r], "onError") = 1
             /\ handled[r] = [by |-> "onError", error |-> ExpectedError(r)]
             /\ (pc[r] = "hook" => result[r] = Pending)
             /\ (Called(r, "onError:return")
                   => pc[r] = "done" /\ result[r] = HookResponse)
       /\ ~FailureInput(r) => ~Called(r, "onError")
       /\ ~Called(r, "createErrorResponse") /\ ~Called(r, "createResponse")
       /\ result[r].kind = "response" => result[r].by = "onError"

C8_Witness ==
  /\ hasOnError
  /\ \E r \in Reqs :
       /\ answer[r].kind = "resolve" /\ answer[r].error # NoError
       /\ Called(r, "onError:return") /\ result[r] = HookResponse

\* C9: when the error hook throws or rejects, the middleware's promise
\* rejects with the hook's own error: the classifier is not called and no
\* terminal response is returned for that request.
C9_HookErrorPropagates ==
  \A r \in Reqs :
    Called(r, "onError:throw")
    => /\ pc[r] = "done"
       /\ result[r] = Rejected(HookError)
       /\ ~Called(r, "createErrorResponse") /\ ~Called(r, "createResponse")
       /\ Count(events[r], "onError") = 1

C9_Witness ==
  \E r \in Reqs : Called(r, "onError:throw") /\ result[r].kind = "rejected"

\* C10: a request whose token has an unexpired entry makes no remote call,
\* and a request served from the cache gets the user and session that the
\* latest request to resolve the same token remotely got injected.
C10_Idempotent ==
  \A r \in Reqs :
    /\ (cacheEnabled /\ pc[r] # "idle" /\ probe[r].present
          /\ probe[r].age < CacheTtl)
       => path[r] = "hit"
    /\ path[r] = "hit"
       => /\ cacheEnabled
          /\ ~Called(r, "getSession")
          /\ hitFrom[r] \in Reqs \ {r}
          /\ token[hitFrom[r]] = token[r]
          /\ path[hitFrom[r]] = "miss" /\ Full(answer[hitFrom[r]])
          /\ Called(hitFrom[r], "cache.set")
          /\ ctx[r] = ctx[hitFrom[r]]

C10_Witness ==
  \E r \in Reqs :
    /\ path[r] = "hit" /\ hitFrom[r] # 0 /\ ctx[r] = ctx[hitFrom[r]]
    /\ pc[r] = "done" /\ result[r] = ReturnedUndefined

\* the user and session a full remote answer carries
ContextOf(o) == [user |-> o.user, session |-> o.session]

\* the number of entries cache c holds under key k
EntriesFor(c, k) == Cardinality({i \in 1..Len(c) : c[i].key = k})

\* request r resolved its token remotely and got a user and a session
ResolvedRemotely(r) == path[r] = "miss" /\ Full(answer[r])

\* C11: two requests with the same token that both miss the cache both call
\* the remote resolver and both write the cache (nothing de-duplicates the
\* calls in flight); each write is in the cache right after it was made, the
\* cache never holds more than one entry for the token, the entry it holds
\* has the value written last, and each request goes on to its continuation
\* and returns undefined when that completes.
C11_ConcurrentSameToken ==
  \A r \in Reqs : \A q \in Reqs \ {r} :
    (cacheEnabled /\ token[r] # <<>> /\ token[r] = token[q]
       /\ ResolvedRemotely(r) /\ ResolvedRemotely(q))
    => /\ Count(events[r], "getSession") = 1
       /\ Count(events[q], "getSession") = 1
       /\ Count(events[r], "cache.set") = 1
       /\ Count(events[q], "cache.set") = 1
       /\ written[r].present /\ written[r].value = ContextOf(answer[r])
       /\ EntriesFor(cache, token[r]) <= 1
       /\ \A i \in 1..Len(cache) :
            cache[i].key = token[r]
            => cache[i].value = ContextOf(answer[lastWriter[token[r]]])
       /\ pc[r] \in {"next", "hook", "done"}
       /\ Called(r, "next:return") => result[r] = ReturnedUndefined

\* both requests found the token uncached, the one that arrived first wrote
\* last, with a different value, and both have returned
C11_Witness ==
  /\ cacheEnabled /\ token[1] # <<>> /\ token[1] = token[2]
  /\ ResolvedRemotely(1) /\ ResolvedRemotely(2)
  /\ ~probe[1].present /\ ~probe[2].present
  /\ ContextOf(answer[1]) # ContextOf(answer[2])
  /\ lastWriter[token[1]] = 1
  /\ EntriesFor(cache, token[1]) = 1
  /\ cache[1].value = ContextOf(answer[1])
  /\ result[1] = ReturnedUndefined /\ result[2] = ReturnedUndefined

\* C17: when caching is not enabled there is no cache: no request performs a
\* has, get, set or size on one, nothing is ever stored, and every request
\* that carries a token calls the remote resolver.
C17_NoCacheWhenDisabled ==
  ~cacheEnabled
  => /\ cache = <<>>
     /\ \A r \in Reqs :
          /\ ~TouchedCache(r) /\ ~Called(r, "cache.size")
          /\ path[r] # "hit"
          /\ (pc[r] # "idle" /\ token[r] # <<>>)
             => Count(events[r], "getSession") = 1

\* with caching disabled two requests carried the same token one after the
\* other, and both were resolved remotely
C17_Witness ==
  /\ ~cacheEnabled
  /\ token[1] # <<>> /\ token[1] = token[2]
  /\ ResolvedRemotely(1) /\ ResolvedRemotely(2)
  /\ answer[1] = answer[2]
  /\ result[1] = ReturnedUndefined /\ result[2] = ReturnedUndefined

\* the remote call of request r failed: it was rejected or threw, or it
\* resolved to a response carrying an error
RemoteFailed(r) ==
  answer[r].kind = "reject" \/ (answer[r].kind = "resolve" /\ HasError(answer[r]))

\* C18: no request calls the remote resolver more than once, and a remote
\* call that rejects, throws or answers with an error is followed at once by
\* the failure handling of that very error: no second call, no cache write,
\* no injection, no continuation.
C18_NoRetry ==
  \A r \in Reqs :
    /\ Count(events[r], "getSession") <= 1
    /\ RemoteFailed(r)
       => /\ handled[r].error = answer[r].error
          /\ \A i \in 1..Len(events[r]) :
               events[r][i] \in {"getSession:throw", "getSession:return"}
               => /\ i < Len(events[r])
                  /\ events[r][i + 1] \in {"onError", "createErrorResponse"}
          /\ ~Called(r, "cache.set") /\ ~Injected(r) /\ ~Called(r, "next")

\* a request whose remote call was rejected has been answered with the
\* classified response after its single call
C18_Witness ==
  \E r \in Reqs :
    /\ answer[r].kind = "reject" /\ pc[r] = "done"
    /\ Count(events[r], "getSession") = 1
    /\ handled[r] = [by |-> "createErrorResponse", error |-> NetworkError]
    /\ result[r] = createErrorResponse(NetworkError)

\* the entry of cache c under key k (k has one)
EntryOf(c, k) == c[IndexOf(c, k)]

\* the latest call was a set of a new key on a full cache
OverflowingSet ==
  /\ lastCall.op = "set"
  /\ lastCall.key \notin Keys(lastCall.before)
  /\ Len(lastCall.before) = LruMax

\* C12: a SessionCache built with capacity LruMax never holds more than
\* LruMax entries, whatever sequence of get, set, has, delete and clear is
\* made on it (the calls concurrent requests make are such a sequence).
C12_SizeWithinMax == CacheSize(cache) <= LruMax

\* a set of a new key was made on a full cache, which is still full
C12_Witness == OverflowingSet /\ CacheSize(cache) = LruMax

\* C13: a set of a new key on a full cache evicts exactly one entry, the one
\* whose last set or successful get is the oldest; the other entries stay as
\* they were and the new key is stored.
C13_StrictLru ==
  OverflowingSet
  => /\ Keys(lastCall.before) \ Keys(cache) = {Head(lastCall.usedBefore)}
     /\ Keys(cache) \ Keys(lastCall.before) = {lastCall.key}
     /\ CacheSize(cache) = LruMax
     /\ \A k \in Keys(cache) \ {lastCall.key} :
          EntryOf(cache, k) = EntryOf(lastCall.before, k)

\* the evicted entry was inserted after a surviving one, which had been read
\* since
C13_Witness ==
  /\ OverflowingSet
  /\ \E k \in Keys(cache) \ {lastCall.key} :
       /\ lastCall.setBefore[k] >= 0
       /\ lastCall.setBefore[k] < lastCall.setBefore[Head(lastCall.usedBefore)]

\* C14: an entry that was set and not removed since is reported by has
\* exactly while less than LruTtl seconds have passed since the set (at the
\* age LruTtl it counts as expired), and get gives nothing whenever has is
\* false.
C14_TtlBoundary ==
  \A k \in LruKeys :
    setAt[k] >= 0
    => /\ LruHas(cache, k, now, LruTtl) <=> (now - setAt[k] < LruTtl)
       /\ ~LruHas(cache, k, now, LruTtl)
          => LruGet(cache, k, now, LruTtl).value = NoContext

\* C15: a get that finds a live entry leaves the time its age counts from
\* as it was, and an entry is absent once more than LruTtl seconds have
\* passed since it was set, however often it was read.
C15_GetKeepsExpiry ==
  /\ (lastCall.op = "get" /\ lastCall.value # NoContext)
     => EntryOf(cache, lastCall.key).start
          = EntryOf(lastCall.before, lastCall.key).start
  /\ \A k \in LruKeys :
       (setAt[k] >= 0 /\ now - setAt[k] > LruTtl)
       => ~LruHas(cache, k, now, LruTtl)

\* the latest call was a get of a key whose entry was older than the ttl
StaleGet ==
  /\ lastCall.op = "get"
  /\ lastCall.key \in Keys(lastCall.before)
  /\ lastCall.at - EntryOf(lastCall.before, lastCall.key).start > LruTtl

WrittenBy(c, x) ==
  \A i \in 1..Len(c) :
    \E q \in Reqs :
      /\ owner[q] = x /\ token[q] = c[i].key /\ ResolvedRemotely(q)
      /\ c[i].value = ContextOf(answer[q])

\* whatever the step of a request does, it leaves the cache of the other
\* instance as it is
OwnCacheOnly ==
  \A r \in Reqs :
    pc'[r] # pc[r]
    => /\ owner[r] = "A" => cacheB' = cacheB
       /\ owner[r] = "B" => cache' = cache

\* a request is served from the cache only with what a request of its own
\* instance stored
HitsFromOwnInstance ==
  \A r \in Reqs :
    path[r] = "hit"
    => \E q \in Reqs \ {r} :
         /\ owner[q] = owner[r] /\ token[q] = token[r] /\ ResolvedRemotely(q)
         /\ cached[r] = ContextOf(answer[q])

\* C19: with two middleware instances, no step of a request changes the
\* cache of the other instance (no entry added, refreshed, evicted or
\* removed), each cache holds only what requests of its own instance
\* resolved, and a request is a cache hit only on an entry of its own
\* instance: a token cached by the other instance is a miss.
C19_InstancesSeparate ==
  /\ [](WrittenBy(cache, "A") /\ WrittenBy(cacheB, "B") /\ HitsFromOwnInstance)
  /\ [][OwnCacheOnly]_vars

\* instance A resolved and cached a token; the request of instance B that
\* came afterwards with the same token missed, called the remote resolver
\* and filled B's own cache, A's entry being still live and in place
C19_Witness ==
  /\ owner[1] = "A" /\ owner[2] = "B"
  /\ token[1] # <<>> /\ token[1] = token[2]
  /\ ResolvedRemotely(1) /\ ResolvedRemotely(2)
  /\ hitFrom[2] = 1
  /\ ~probe[2].present
  /\ ContextOf(answer[1]) # ContextOf(answer[2])
  /\ EntriesFor(cache, token[1]) = 1 /\ EntriesFor(cacheB, token[1]) = 1
  /\ cache[1].value = ContextOf(answer[1])
  /\ cacheB[1].value = ContextOf(answer[2])
  /\ now - cache[1].start < CacheTtl

\* what the value of each cookie name gives, by priority of the names
\* C20: for every cookie header the extractor returns the value of the
\* better-auth.session_token cookie if the header has one with a non-empty
\* value, otherwise that of the session_token cookie, otherwise that of the
\* session cookie (null if none), wherever the cookies stand in the header.
C20_PriorityByName ==
  extracted.done => extracted.token = TokenByName(extracted.of)

\* a string that is empty or consists of blanks only
IsBlank(s) == \A i \in 1..Len(s) : s[i] = " "

\* the three names as a set
SessionNames == {sessionCookieNames[n] : n \in 1..Len(sessionCookieNames)}

\* C21: the extractor never returns an empty or whitespace-only token, and
\* when it returns null no cookie with one of the three names has a value
\* that is non-empty after trimming (a blank value does not end the search).
C21_NeverBlankToken ==
  extracted.done
  => /\ extracted.token # <<>> => ~IsBlank(extracted.token)
     /\ extracted.token = <<>>
        => \A i \in 1..Len(CookiePairs(extracted.of)) :
             CookiePairs(extracted.of)[i].name \in SessionNames
             => IsBlank(CookiePairs(extracted.of)[i].value)

\* C22: the extractor returns null when the header is empty or when none of
\* its cookies is named better-auth.session_token, session_token or session.
C22_NullWithoutSessionCookie ==
  (extracted.done
     /\ \/ extracted.of = <<>>
        \/ \A i \in 1..Len(CookiePairs(extracted.of)) :
             CookiePairs(extracted.of)[i].name \notin SessionNames)
  => extracted.token = <<>>

\* the latest direct call was createErrorResponse
Classified == errCall.fn = "createErrorResponse"

\* what that call handed to the response constructor
Emitted == errCall.calls[1]

\* the error of that call is an object (not null, undefined or a string)
\* that carries a code / a message / a status
HasCode == errCall.error.kind \notin Primitives /\ errCall.error.code # ""
HasMessage == errCall.error.kind \notin Primitives /\ errCall.error.message # ""
HasStatus == errCall.error.kind \notin Primitives /\ errCall.error.status # 0

\* C23: for an error that carries a code, the body's code is that code and
\* its message is the English dictionary entry of the code, or "Unknown
\* error" for a code outside the dictionary; the error's own message is not
\* used.
C23_CodedError ==
  (Classified /\ HasCode)
  => /\ Emitted.body.code = errCall.error.code
     /\ Emitted.body.message =
          IF errCall.error.code \in ErrorCodes
          THEN ERROR_MESSAGES[errCall.error.code].en
          ELSE "Unknown error"
     /\ HasMessage => Emitted.body.message # errCall.error.message

\* an error with an unknown code and a message of its own was classified
C23_Witness ==
  /\ Classified /\ HasMessage
  /\ errCall.error.code = "UNKNOWN_ERROR"
  /\ Emitted.body = [success |-> FALSE, message |-> "Unknown error",
                     code |-> "UNKNOWN_ERROR"]

\* C24 as stated: for an error with a message and no code, the body's
\* message is that message, its code is UNAUTHORIZED and the status is 401.
C24_MessageOnly_Stated ==
  (Classified /\ HasMessage /\ ~HasCode)
  => /\ Emitted.body.message = errCall.error.message
     /\ Emitted.body.code = "UNAUTHORIZED"
     /\ Emitted.status = 401

\* C24: for an error with a message and no code, the body's message is that
\* message, its code is UNAUTHORIZED, and the status is the error's own
\* status if it carries one and 401 otherwise.
C24_MessageOnly ==
  (Classified /\ HasMessage /\ ~HasCode)
  => /\ Emitted.body.message = errCall.error.message
     /\ Emitted.body.code = "UNAUTHORIZED"
     /\ Emitted.status = IF HasStatus THEN errCall.error.status ELSE 401

\* an error with a message, no code and status 403 was classified
C24_Witness ==
  /\ Classified /\ HasMessage /\ ~HasCode
  /\ errCall.error.status = 403 /\ Emitted.status = 403
  /\ Emitted.body.message = "Custom error message"

\* the error of the call is null, undefined, a string, or an object with
\* neither message nor code
Shapeless == ~HasMessage /\ ~HasCode

\* C25 as stated: for null, undefined, a string or an object with neither
\* message nor code, the body's message is "Invalid or missing session", its
\* code is UNAUTHORIZED and the status is 401.
C25_Shapeless_Stated ==
  (Classified /\ Shapeless)
  => /\ Emitted.body.message = "Invalid or missing session"
     /\ Emitted.body.code = "UNAUTHORIZED"
     /\ Emitted.status = 401

\* C25: for null, undefined, a string or an object with neither message nor
\* code, the body's message is "Invalid or missing session", its code is
\* UNAUTHORIZED, and the status is the object's own status if it carries one
\* and 401 otherwise.
C25_Shapeless ==
  (Classified /\ Shapeless)
  => /\ Emitted.body.message = "Invalid or missing session"
     /\ Emitted.body.code = "UNAUTHORIZED"
     /\ Emitted.status = IF HasStatus THEN errCall.error.status ELSE 401

\* a string was classified: its text is not the message
C25_Witness ==
  /\ Classified /\ errCall.error.kind = "string"
  /\ errCall.error.message = "String error message"
  /\ Emitted.body.message = "Invalid or missing session"
  /\ Emitted.status = 401

\* C26: a request without cookie header, with no hook configured, is
\* answered with status 401 and the body {success: false, code:
\* "UNAUTHORIZED", message: "Invalid or missing session"}, and makes no
\* remote call.
C26_NoCookieResponse ==
  \A r \in Reqs :
    (pc[r] # "idle" /\ ~header[r].throws /\ ~header[r].hasCookie
       /\ ~hasOnError)
    => /\ result[r].kind = "response"
       /\ result[r].status = 401
       /\ result[r].body = [success |-> FALSE, code |-> "UNAUTHORIZED",
                            message |-> "Invalid or missing session"]
       /\ ~Called(r, "getSession")

\* C27: with no hook, every failure response has the status of the error
\* that caused it if that error carries one, and 401 otherwise, whether or
\* not the error carries a code.
C27_StatusFromError ==
  \A r \in Reqs :
    (~hasOnError /\ result[r].kind = "response")
    => result[r].status = IF handled[r].error.status # 0
                          THEN handled[r].error.status
                          ELSE 401

\* one request failed with a coded error of status 422, the other with an
\* error without code of status 403
C27_Witness ==
  /\ ~hasOnError
  /\ handled[1].error.code # "" /\ result[1].kind = "response"
  /\ result[1].status = 422
  /\ handled[2].error.code = "" /\ result[2].kind = "response"
  /\ result[2].status = 403

\* C28: createErrorResponse calls the response constructor once, with the
\* context it was given, a body of exactly success = false, message and
\* code, and the classified status; it returns what the constructor
\* returned; two calls with the same error and context pass the same
\* arguments; nothing else changes.
C28_OneConstructorCall ==
  Classified
  => /\ Len(errCall.calls) = 1
     /\ Emitted.ctx = errCall.ctx
     /\ DOMAIN Emitted.body = {"success", "message", "code"}
     /\ Emitted.body.success = FALSE
     /\ Emitted.body.message # "" /\ Emitted.body.code # ""
     /\ Emitted.status = IF HasStatus THEN errCall.error.status ELSE 401
     /\ errCall.result = errCall.returned
     /\ (prevCall.fn = "createErrorResponse"
           /\ prevCall.error = errCall.error /\ prevCall.ctx = errCall.ctx)
        => prevCall.calls = errCall.calls
     /\ cache = <<>> /\ now = 0 /\ extracted = NotExtracted
     /\ lastCall = NoCall

\* the same error was classified twice in a row for the same context
C28_Witness ==
  /\ Classified /\ prevCall.fn = "createErrorResponse"
  /\ prevCall.error = errCall.error /\ prevCall.ctx = errCall.ctx
  /\ HasCode /\ HasStatus
  /\ errCall.result = "response2"

\* C29: getErrorMessage gives, for each of the five dictionary codes, the
\* entry in the language asked for (English when lang is omitted), and
\* "Unknown error" for every other code, the empty string included, in
\* either language.
C29_DictionaryLookup ==
  errCall.fn = "getErrorMessage"
  => errCall.result =
       IF errCall.code \in {"USER_ALREADY_EXISTS", "INVALID_CREDENTIALS",
                            "UNAUTHORIZED", "SESSION_EXPIRED",
                            "INVALID_SESSION"}
       THEN (IF errCall.lang = "es" THEN ERROR_MESSAGES[errCall.code].es
             ELSE ERROR_MESSAGES[errCall.code].en)
       ELSE "Unknown error"

\* a Spanish entry was looked up after the empty code had been, in Spanish
C29_Witness ==
  /\ errCall.fn = "getErrorMessage" /\ errCall.code = "SESSION_EXPIRED"
  /\ errCall.lang = "es" /\ errCall.result = "La sesion ha expirado"
  /\ prevCall.fn = "getErrorMessage" /\ prevCall.code = ""
  /\ prevCall.lang = "es" /\ prevCall.result = "Unknown error"

\* C30: size is the number of keys stored; right after a set on a cache
\* with room the key is reported by has and get gives the value set; after
\* a delete of a stored key has is false, get gives nothing, the size is one
\* less and every other entry is as it was; after clear the size is 0 and
\* has is false for every key.
C30_Bookkeeping ==
  /\ CacheSize(cache) = Cardinality(Keys(cache))
  /\ (lastCall.op = "set" /\ CacheSize(lastCall.before) < LruMax)
     => /\ LruHas(cache, lastCall.key, lastCall.at, LruTtl)
        /\ LruGet(cache, lastCall.key, lastCall.at, LruTtl).value
             = lastCall.value
        /\ Keys(cache) = Keys(lastCall.before) \cup {lastCall.key}
  /\ (lastCall.op = "delete" /\ lastCall.key \in Keys(lastCall.before))
     => /\ ~LruHas(cache, lastCall.key, lastCall.at, LruTtl)
        /\ LruGet(cache, lastCall.key, lastCall.at, LruTtl).value = NoContext
        /\ CacheSize(cache) = CacheSize(lastCall.before) - 1
        /\ \A k \in Keys(lastCall.before) \ {lastCall.key} :
             k \in Keys(cache) /\ EntryOf(cache, k) = EntryOf(lastCall.before, k)
  /\ lastCall.op = "clear"
     => /\ CacheSize(cache) = 0
        /\ \A k \in LruKeys : ~LruHas(cache, k, now, LruTtl)

\* a stored key was deleted from a full cache, leaving the other entry
C30_Witness ==
  /\ lastCall.op = "delete" /\ lastCall.key \in Keys(lastCall.before)
  /\ CacheSize(lastCall.before) = LruMax
  /\ CacheSize(cache) = LruMax - 1

\* the characters of t stand next to each other somewhere in s
Contains(s, t) ==
  \E i \in 0..(Len(s) - Len(t)) : SubSeq(s, i + 1, i + Len(t)) = t

\* the records of request r that name its session token
TokenRecords(r) ==
  {i \in 1..Len(logs[r]) : logs[r][i].sessionToken # <<>>}

\* C31: every log record about a session token carries the first 8
\* characters of the token followed by "..." and nothing else of it, and the
\* complete token appears in no log record, whatever its length.
C31_TokenMasked ==
  \A r \in Reqs : \A i \in TokenRecords(r) :
    /\ logs[r][i].sessionToken
         = FirstChars(token[r], 8) \o <<".", ".", ".">>
    /\ ~Contains(logs[r][i].sessionToken, token[r])

\* the position of the first call of that name made by request r (0: none)
At(r, name) ==
  IF Called(r, name)
  THEN CHOOSE i \in 1..Len(events[r]) :
         events[r][i] = name /\ \A j \in 1..(i - 1) : events[r][j] # name
  ELSE 0

\* C32: within one request the steps come in a fixed order: on a miss the
\* remote call and its answer, then the cache write (caching enabled), then
\* setContext for "user", then setContext for "session", then the
\* continuation; on a hit the cache read comes before the two setContext;
\* the continuation is invoked at most once and never before both attributes
\* are set; the middleware stays pending while the continuation runs and
\* returns undefined only when the continuation has completed, as its last
\* step.
C32_FixedOrder ==
  \A r \in Reqs :
    /\ Count(events[r], "next") <= 1
    /\ Count(events[r], "setContext:user") <= 1
    /\ Count(events[r], "setContext:session") <= 1
    /\ Called(r, "next")
       => /\ Called(r, "setContext:user") /\ Called(r, "setContext:session")
          /\ At(r, "setContext:user") < At(r, "setContext:session")
          /\ At(r, "setContext:session") < At(r, "next")
          /\ ctx[r] # NoContext
    /\ (Called(r, "next") /\ path[r] = "miss")
       => /\ Called(r, "getSession") /\ Called(r, "getSession:return")
          /\ At(r, "getSession") < At(r, "getSession:return")
          /\ At(r, "getSession:return") < At(r, "setContext:user")
          /\ cacheEnabled
             => /\ Called(r, "cache.set")
                /\ At(r, "getSession:return") < At(r, "cache.set")
                /\ At(r, "cache.set") < At(r, "setContext:user")
    /\ (Called(r, "next") /\ path[r] = "hit")
       => /\ Called(r, "cache.get")
          /\ At(r, "cache.get") < At(r, "setContext:user")
    /\ pc[r] = "next" => result[r] = Pending
    /\ result[r] = ReturnedUndefined
       => /\ Called(r, "next:return")
          /\ At(r, "next") < At(r, "next:return")
          /\ At(r, "next:return") = Len(events[r])

\* a request that missed the cache has gone through all the steps and
\* returned
C32_Witness ==
  \E r \in Reqs :
    /\ cacheEnabled /\ result[r] = ReturnedUndefined
    /\ events[r] = <<"getHeaders", "extractSessionToken", "cache.has",
                     "getSession", "getSession:return", "cache.set",
                     "cache.size", "setContext:user", "setContext:session",
                     "next", "next:return">>

\* sessionCache.has was true for request r and get returned no value
HasButNoValue(r) == Called(r, "cache.get") /\ cached[r] = NoContext

\* C33: a request for which has is true but get returns no value is treated
\* as a miss: nothing is injected from the cache, the remote resolver is
\* called right after the get, and the request goes on as any miss does: a
\* full answer is cached and injected and the continuation is called; any
\* other answer ends in the failure handling with nothing injected.
C33_UndefinedIsMiss ==
  \A r \in Reqs :
    HasButNoValue(r)
    => /\ path[r] = "miss"
       /\ Count(events[r], "getSession") = 1
       /\ At(r, "getSession") = At(r, "cache.get") + 1
       /\ pc[r] = "remote" => ctx[r] = NoContext /\ ~Injected(r)
       /\ Full(answer[r])
          => /\ ctx[r] = ContextOf(answer[r])
             /\ Count(events[r], "cache.set") = 1
             /\ At(r, "getSession:return") < At(r, "setContext:user")
             /\ Count(events[r], "next") = 1
             /\ Called(r, "next:return") => result[r] = ReturnedUndefined
       /\ (answer[r].kind # "none" /\ ~Full(answer[r]))
          => /\ ctx[r] = NoContext /\ ~Injected(r) /\ ~Called(r, "next")
             /\ ~Called(r, "cache.set")
             /\ handled[r].error = ExpectedError(r)

\* has was true, get returned nothing, the remote resolver answered with a
\* user and a session, and the request returned
C33_Witness ==
  \E r \in Reqs :
    /\ HasButNoValue(r) /\ Full(answer[r])
    /\ ctx[r] = ContextOf(answer[r])
    /\ result[r] = ReturnedUndefined

\* the continuation of request r has thrown
NextThrew(r) == Called(r, "next:throw")

\* the handling of a continuation's exception: it goes to the hook or the
\* classifier like any failure, the promise never rejects with it, and what
\* was injected stays injected
DownstreamHandled ==
  \A r \in Reqs :
    NextThrew(r)
    => /\ handled[r] = [by |-> IF hasOnError THEN "onError"
                                ELSE "createErrorResponse",
                         error |-> DownstreamError]
       /\ result[r] # Rejected(DownstreamError)
       /\ ~hasOnError
          => /\ pc[r] = "done" /\ result[r].kind = "response"
             /\ result[r].by = "createErrorResponse"
             /\ result[r].status = 401
             /\ result[r].body = [success |-> FALSE,
                                  message |-> DownstreamError.message,
                                  code |-> "UNAUTHORIZED"]
       /\ Called(r, "onError:return") => result[r] = HookResponse
       /\ Called(r, "setContext:user") /\ Called(r, "setContext:session")
       /\ ctx[r] # NoContext
       /\ ctx[r] = IF path[r] = "hit" THEN cached[r]
                   ELSE ContextOf(answer[r])

\* the steps of a request whose continuation throws (the throw itself and
\* the hook's answer) leave every cache and every context as they are
DownstreamKeeps ==
  \A r \in Reqs :
    (pc'[r] # pc[r]
       /\ \E i \in 1..Len(events'[r]) : events'[r][i] = "next:throw")
    => cache' = cache /\ cacheB' = cacheB /\ ctx' = ctx

\* C34: an exception thrown by the continuation is caught and handled like
\* an authentication failure: the middleware's promise does not reject with
\* it, the hook or the classifier gives the terminal response, and the user
\* and session injected and the cache entry written for the request stay as
\* they are.
C34_DownstreamCaught == []DownstreamHandled /\ [][DownstreamKeeps]_vars

\* a request resolved remotely, cached and injected its context, its
\* continuation threw, and the classifier answered; entry and context are
\* in place
C34_Witness ==
  \E r \in Reqs :
    /\ cacheEnabled /\ ~hasOnError /\ NextThrew(r)
    /\ ResolvedRemotely(r) /\ written[r].present
    /\ EntriesFor(cache, token[r]) = 1
    /\ EntryOf(cache, token[r]).value = ctx[r]
    /\ ctx[r] = ContextOf(answer[r])
    /\ result[r].kind = "response"

\* request r failed before anything was injected: it had no token, or its
\* remote call rejected, answered with an error object or answered without a
\* user or a session
FailedEarly(r) ==
  NoTokenInput(r) \/ RemoteFailed(r) \/ Malformed(answer[r])

\* such a request has called neither set nor get (which can refresh or
\* remove an entry) on the cache; the class has no other mutator the
\* middleware calls
NoWriteByFailed ==
  \A r \in Reqs :
    FailedEarly(r)
    => /\ ~Called(r, "cache.set") /\ ~Called(r, "cache.get")
       /\ ~Called(r, "cache.delete") /\ ~Called(r, "cache.clear")
       /\ written[r] = NoEntry

\* the step in which such a request fails, and the steps of its error hook,
\* leave every cache as it is
FailKeepsCache ==
  \A r \in Reqs :
    (pc'[r] # pc[r] /\ pc'[r] \in {"hook", "done"} /\ FailedEarly(r)')
    => cache' = cache /\ cacheB' = cacheB

\* C35: a request that fails for want of a token, on a remote error object,
\* on a malformed remote response or on a remote exception performs no set,
\* delete or clear: the cache is after its failure exactly what it was
\* before, so an entry a concurrent request wrote for the same token
\* survives a later remote rejection.
C35_FailureKeepsCache == []NoWriteByFailed /\ [][FailKeepsCache]_vars

\* two requests missed on the same token; the second one resolved and wrote
\* its entry, then the first one's remote call was rejected: the entry was
\* there when it failed and is still there
C35_Witness ==
  /\ cacheEnabled
  /\ token[1] # <<>> /\ token[1] = token[2]
  /\ ~probe[1].present /\ ~probe[2].present
  /\ ResolvedRemotely(2) /\ answer[1].kind = "reject" /\ pc[1] = "done"
  /\ atFail[1] = [present |-> TRUE, value |-> ContextOf(answer[2]), age |-> 0]
  /\ EntriesFor(cache, token[1]) = 1
  /\ EntryOf(cache, token[1]).value = ContextOf(answer[2])

\* C36: the user and session injected into a request are those of one
\* resolved context, which is either the remote answer to this very request
\* or the cache entry found under this request's own token, written by a
\* request that carried the same token; whatever the interleaving, no
\* request is injected with a context resolved for another token.
C36_NoCrossToken ==
  \A r \in Reqs :
    (ctx[r] # NoContext \/ Injected(r))
    => /\ ctx[r] \in AuthContexts
       /\ token[r] # <<>>
       /\ \/ /\ path[r] = "miss" /\ Full(answer[r])
             /\ ctx[r] = ContextOf(answer[r])
          \/ /\ path[r] = "hit"
             /\ probe[r].present /\ probe[r].value = ctx[r]
             /\ hitFrom[r] \in Reqs \ {r}
             /\ token[hitFrom[r]] = token[r]
             /\ ResolvedRemotely(hitFrom[r])
             /\ ctx[r] = ContextOf(answer[hitFrom[r]])

\* two requests with different tokens were in flight together and resolved
\* to different contexts; each has its own, and the entry of the one that
\* wrote last is the one in the cache
C36_Witness ==
  /\ cacheEnabled
  /\ token[1] # <<>> /\ token[2] # <<>> /\ token[1] # token[2]
  /\ ResolvedRemotely(1) /\ ResolvedRemotely(2)
  /\ ContextOf(answer[1]) # ContextOf(answer[2])
  /\ ctx[1] = ContextOf(answer[1]) /\ ctx[2] = ContextOf(answer[2])
  /\ lastWriter[token[1]] = 1 /\ lastWriter[token[2]] = 2
  /\ EntriesFor(cache, token[1]) = 1 /\ EntriesFor(cache, token[2]) = 0
  /\ EntryOf(cache, token[1]).value = ctx[1]
  /\ result[1] = ReturnedUndefined /\ result[2] = ReturnedUndefined

\* C37: every identity injected from the cache comes from a remote
\* resolution of the token that completed at most CacheTtl seconds before
\* the injection, so a token that keeps being presented is resolved
\* remotely again at least once every CacheTtl seconds.
C37_BoundedStaleness ==
  \A r \in Reqs : path[r] = "hit" => hitAge[r] <= CacheTtl

\* the latest call was a has that found the key, the cache being full and
\* the key the one whose last set or successful get is the oldest
HasOnOldest ==
  /\ lastCall.op = "has" /\ lastCall.found
  /\ CacheSize(lastCall.before) = LruMax
  /\ lastCall.key = Head(lastCall.usedBefore)

\* C38: has changes nothing: after it every entry is where it was in the
\* recency order, with the same value and the same start of its age; an
\* entry that was the least recently set or read and was only checked with
\* has is the one the next set of a new key evicts.
C38_HasIsPure ==
  /\ lastCall.op = "has" => cache = lastCall.before
  /\ HasOnOldest
     => \A k \in LruKeys \ Keys(cache) : \A v \in AuthContexts :
          Keys(LruSet(cache, k, v, now, LruMax))
            = (Keys(cache) \ {lastCall.key}) \cup {k}

\* has found the oldest entry of a full cache some time after that entry
\* was stored
C38_Witness ==
  /\ HasOnOldest
  /\ lastCall.at > EntryOf(lastCall.before, lastCall.key).start
  /\ cache[1].key = lastCall.key

\* a request has an outcome exactly when it is over; the outcome is
\* undefined, a terminal response or the rejection with the hook's own
\* error; and on its way the request calls the remote resolver, the
\* continuation and the hook at most once each
OneOutcome ==
  \A r \in Reqs :
    /\ (pc[r] = "done") = (result[r] # Pending)
    /\ result[r].kind \in {"pending", "undefined", "response", "rejected"}
    /\ result[r].kind = "rejected"
       => result[r] = Rejected(HookError) /\ Called(r, "onError:throw")
    /\ Count(events[r], "getSession") <= 1
    /\ Count(events[r], "next") <= 1
    /\ Count(events[r], "onError") <= 1

\* a request that is over stays over, with the outcome it has
OutcomeStable ==
  \A r \in Reqs :
    pc[r] = "done" => pc'[r] = "done" /\ result'[r] = result[r]

\* C39 as stated: provided the remote call and the continuation settle,
\* every request the middleware was called for eventually reaches exactly
\* one final outcome: undefined, a terminal response or the hook's
\* exception.
C39_Terminates_Stated ==
  /\ []OneOutcome
  /\ [][OutcomeStable]_vars
  /\ \A r \in Reqs : (pc[r] # "idle") ~> (pc[r] = "done")

\* C39: provided the remote call and the continuation settle, and the error
\* hook of a request settles once it is called, every request the middleware
\* was called for eventually reaches exactly one final outcome: undefined,
\* a terminal response or the hook's exception.
C39_Terminates ==
  /\ []OneOutcome
  /\ [][OutcomeStable]_vars
  /\ \A r \in Reqs :
       ((pc[r] = "hook") ~> (pc[r] = "done"))
       => ((pc[r] # "idle") ~> (pc[r] = "done"))

\* one request ended with the hook's exception, the other returned
\* undefined after being served from the remote resolver
C39_Witness ==
  /\ pc[1] = "done" /\ result[1] = Rejected(HookError)
  /\ pc[2] = "done" /\ result[2] = ReturnedUndefined
  /\ Called(2, "getSession:return") /\ Called(2, "next:return")

====
